---- MODULE Spec2Model ----
(***************************************************************************)
(* A model of the python_orm query engine: the dialect policy of           *)
(* BaseDBClass (database.py), and Model, QueryObject and Objects           *)
(* (models.py).                                                            *)
(*                                                                         *)
(* Text is modelled character by character: a Python str is a sequence of  *)
(* one-character strings, so that split, upper, replace, strip and the     *)
(* %-formatting of the source are computed rather than assumed.            *)
(* A Python dict is a sequence of [k, v] entries in insertion order.       *)
(***************************************************************************)
EXTENDS Integers, Sequences, FiniteSets, TLC

VARIABLES
    database_class,         \* BaseDBClass.database_class, fixed at construction
    column_lookup,          \* Objects.column_lookup (class-level dict, shared)
    column_lookup_reverse,  \* Objects.column_lookup_reverse (class-level dict, shared)
    engines,                \* per model: the instance attributes of its Objects
    call,                   \* the operation the caller invokes, or invoked last, with its arguments
    session_log,            \* what the last operation handed to the session
    result,                 \* how the last operation ended: its return value or exception
    entity,                 \* the QueryObject the caller currently holds
    decoded,                \* history: the container of that QueryObject as it was decoded
    where_values_before,    \* history: where_values of the engine when the last filter began
    failed_before,          \* history: the session failed the statement of the call before the last filter
    field                   \* a Field instance used on its own: its class and its value

vars == <<database_class, column_lookup, column_lookup_reverse, engines, call,
          session_log, result, entity, decoded, where_values_before, failed_before,
          field>>

(***************************************************************************)
(* Bounds of the model.                                                    *)
(***************************************************************************)
MaxLookups == 3
MaxRows == 2

(***************************************************************************)
(* Python values: str, int, bool, None, float, datetime.date,               *)
(* datetime.datetime and decimal.Decimal.                                  *)
(***************************************************************************)
StrV(s) == [t |-> "str", s |-> s, n |-> 0]
IntV(n) == [t |-> "int", s |-> <<>>, n |-> n]
BoolV(b) == [t |-> "bool", s |-> <<>>, n |-> IF b THEN 1 ELSE 0]
NoneV == [t |-> "none", s |-> <<>>, n |-> 0]
\* a non-negative float by its repr: the integral part and the digits after
\* the point
FloatV(n, fraction) == [t |-> "float", s |-> fraction, n |-> n]
\* a date by the number yyyymmdd; a datetime by it and the digits hhmmss
DateV(ymd) == [t |-> "date", s |-> <<>>, n |-> ymd]
DateTimeV(ymd, hms) == [t |-> "datetime", s |-> hms, n |-> ymd]
\* a Decimal by its digits as written
DecimalV(digits) == [t |-> "decimal", s |-> digits, n |-> 0]

Digits == <<"0","1","2","3","4","5","6","7","8","9">>
LowerCase == <<"a","b","c","d","e","f","g","h","i","j","k","l","m","n","o","p","q","r","s","t","u","v","w","x","y","z">>
UpperCase == <<"A","B","C","D","E","F","G","H","I","J","K","L","M","N","O","P","Q","R","S","T","U","V","W","X","Y","Z">>

\* str(n) for a non-negative int
RECURSIVE IntToStr(_)
IntToStr(n) ==
    IF n < 10 THEN <<Digits[n + 1]>>
    ELSE IntToStr(n \div 10) \o <<Digits[(n % 10) + 1]>>

\* "%02d" % n and "%04d" % n for a non-negative int
RECURSIVE zero_padded(_, _)
zero_padded(n, width) ==
    IF width = 0 THEN <<>> ELSE zero_padded(n \div 10, width - 1) \o <<Digits[(n % 10) + 1]>>

\* date.isoformat() and time.isoformat()
iso_date(ymd) ==
    zero_padded(ymd \div 10000, 4) \o <<"-">> \o zero_padded((ymd \div 100) % 100, 2)
        \o <<"-">> \o zero_padded(ymd % 100, 2)
iso_time(hms) == SubSeq(hms, 1, 2) \o <<":">> \o SubSeq(hms, 3, 4) \o <<":">> \o SubSeq(hms, 5, 6)

\* str(v), also what "%s" % v renders
str(v) ==
    CASE v.t = "str" -> v.s
      [] v.t = "int" -> IF v.n < 0 THEN <<"-">> \o IntToStr(0 - v.n) ELSE IntToStr(v.n)
      [] v.t = "bool" -> IF v.n = 1 THEN <<"T","r","u","e">> ELSE <<"F","a","l","s","e">>
      [] v.t = "float" -> IntToStr(v.n) \o <<".">> \o v.s
      [] v.t = "date" -> iso_date(v.n)
      [] v.t = "datetime" -> iso_date(v.n) \o <<" ">> \o iso_time(v.s)
      [] v.t = "decimal" -> v.s
      [] OTHER -> <<"N","o","n","e">>

\* the truth value of v: "if v" / "not v"
truthy(v) ==
    CASE v.t = "str" -> Len(v.s) > 0
      [] v.t = "none" -> FALSE
      [] v.t \in {"int", "bool"} -> v.n # 0
      [] v.t = "float" -> v.n # 0 \/ v.s # <<"0">>
      [] v.t = "decimal" -> \E i \in 1..Len(v.s) : v.s[i] \in {Digits[d] : d \in 2..10}
      [] OTHER -> TRUE

DigitOf == [c \in {Digits[d] : d \in 1..10} |-> (CHOOSE d \in 1..10 : Digits[d] = c) - 1]

IsDigitString(s) == Len(s) > 0 /\ \A i \in 1..Len(s) : s[i] \in DOMAIN DigitOf

\* int(s) for a string of decimal digits
RECURSIVE StrToInt(_)
StrToInt(s) ==
    IF Len(s) = 0 THEN 0
    ELSE 10 * StrToInt(SubSeq(s, 1, Len(s) - 1)) + DigitOf[s[Len(s)]]

UpperOf == [c \in {LowerCase[i] : i \in 1..26} |->
               UpperCase[CHOOSE i \in 1..26 : LowerCase[i] = c]]
LowerOf == [c \in {UpperCase[i] : i \in 1..26} |->
               LowerCase[CHOOSE i \in 1..26 : UpperCase[i] = c]]

upper_char(c) == IF c \in DOMAIN UpperOf THEN UpperOf[c] ELSE c
lower_char(c) == IF c \in DOMAIN LowerOf THEN LowerOf[c] ELSE c

\* str.upper() and str.lower()
upper(s) == [i \in 1..Len(s) |-> upper_char(s[i])]
lower(s) == [i \in 1..Len(s) |-> lower_char(s[i])]

\* str.startswith(p)
startswith(s, p) == Len(p) <= Len(s) /\ SubSeq(s, 1, Len(p)) = p

\* the least of a set of positions, 0 if there is none
first_of(positions) ==
    IF positions = {} THEN 0 ELSE CHOOSE j \in positions : \A k \in positions : j <= k

\* str.find(sep, i): the first position from i on where sep occurs, 0 if none
find(s, sep, i) ==
    first_of({j \in i..(Len(s) - Len(sep) + 1) : SubSeq(s, j, j + Len(sep) - 1) = sep})

\* str.split(sep), for a non-empty sep: the leftmost occurrence is cut first
RECURSIVE split(_, _)
split_at(s, sep, i) ==
    IF i = 0 THEN <<s>>
    ELSE <<SubSeq(s, 1, i - 1)>> \o split(SubSeq(s, i + Len(sep), Len(s)), sep)
split(s, sep) == split_at(s, sep, find(s, sep, 1))

\* sep.join(parts)
RECURSIVE join(_, _)
join(sep, parts) ==
    IF Len(parts) = 0 THEN <<>>
    ELSE IF Len(parts) = 1 THEN parts[1]
    ELSE parts[1] \o sep \o join(sep, Tail(parts))

\* str.replace(old, new): the non-overlapping occurrences, left to right
replace(s, old, new) == join(new, split(s, old))

\* the number of non-overlapping occurrences of pat in s, left to right
count(s, pat) == Len(split(s, pat)) - 1

Whitespace == {" ", "\n", "\t"}

\* str.strip()
RECURSIVE strip(_)
strip(s) ==
    IF Len(s) = 0 THEN s
    ELSE IF s[1] \in Whitespace THEN strip(Tail(s))
    ELSE IF s[Len(s)] \in Whitespace THEN strip(SubSeq(s, 1, Len(s) - 1))
    ELSE s

(***************************************************************************)
(* dicts, as sequences of [k, v] entries in insertion order                *)
(***************************************************************************)
DictHas(d, k) == \E i \in 1..Len(d) : d[i].k = k

\* d.get(k, default)
DictGet(d, k, default) ==
    IF DictHas(d, k) THEN d[CHOOSE i \in 1..Len(d) : d[i].k = k].v ELSE default

\* d[k] = v: an existing key keeps its position
DictSet(d, k, v) ==
    IF DictHas(d, k)
    THEN [i \in 1..Len(d) |-> IF d[i].k = k THEN [k |-> k, v |-> v] ELSE d[i]]
    ELSE Append(d, [k |-> k, v |-> v])

DictKeys(d) == [i \in 1..Len(d) |-> d[i].k]

(***************************************************************************)
(* DialectPolicy: BaseDBClass                                              *)
(***************************************************************************)
\* the tags BaseDBClass.__init__ can leave in database_class; "MySQLdb" stands
\* for a driver whose module name is kept as the tag
DatabaseClasses == {"sqlite", "psql", "mssql", "pyodbc", "MySQLdb"}

\* "mssql" in database_class.lower(), and the same for the other tags
TagHas(dc, word) ==
    CASE word = "mssql" -> dc = "mssql"
      [] word = "pyodbc" -> dc = "pyodbc"
      [] word = "mysql" -> dc = "MySQLdb"
      [] OTHER -> FALSE

_param_string(dc) ==
    IF dc \in {"psql", "mssql"} THEN <<"%","s">> ELSE <<"?">>

\* the backtick character, which a TLA+ string cannot hold
Backtick == "backtick"
DoubleQuote == "\""

\* a changed _encap_string: the bracket pair is given to psql
_encap_string_psql(dc) ==
    IF dc = "psql" THEN <<"[", "]">>
    ELSE IF TagHas(dc, "mysql") THEN <<Backtick, Backtick>>
    ELSE <<DoubleQuote, DoubleQuote>>

\* _encap_string(): the pair [encap_left, encap_right]
_encap_string(dc) ==
    IF TagHas(dc, "mssql") THEN <<"[", "]">>
    ELSE IF TagHas(dc, "mysql") THEN <<Backtick, Backtick>>
    ELSE <<DoubleQuote, DoubleQuote>>

encap_left(dc) == _encap_string(dc)[1]
encap_right(dc) == _encap_string(dc)[2]

\* encap_string(value) for a non-empty str
encap_end(dc, value) ==
    IF value[Len(value)] # encap_right(dc) THEN value \o <<encap_right(dc)>> ELSE value
encap_string(dc, value) ==
    encap_end(dc, IF value[1] # encap_left(dc) THEN <<encap_left(dc)>> \o value ELSE value)

(***************************************************************************)
(* Objects._process_filters: the lookup grammar field__function__operator  *)
(***************************************************************************)
\* key_function when the key has no "__" part: Python's None
NoFunction == <<"None">>

Comparison(w, vals) == [err |-> "", where_append |-> w, vals |-> vals]
Raised(e) == [err |-> e, where_append |-> <<>>, vals |-> <<>>]
Quoted(x) == <<"'">> \o x \o <<"'">>

\* the comparisons whose text does not depend on the parametrized flag
fixed_comparison(key, key_function, v, P) ==
    CASE key_function = <<"l","e","n","g","t","h","_","l","t">> ->
            Comparison(<<"L","E","N","G","T","H","(">> \o key \o <<")"," ","<"," ">> \o P, <<v>>)
      [] key_function = <<"l","e","n","g","t","h","_","l","t","e">> ->
            Comparison(<<"L","E","N","G","T","H","(">> \o key \o <<")"," ","<","="," ">> \o P, <<v>>)
      [] key_function = <<"l","e","n","g","t","h","_","g","t">> ->
            Comparison(<<"L","E","N","G","T","H","(">> \o key \o <<")"," ",">"," ">> \o P, <<v>>)
      [] key_function = <<"l","e","n","g","t","h","_","g","t","e">> ->
            Comparison(<<"L","E","N","G","T","H","(">> \o key \o <<")"," ",">","="," ">> \o P, <<v>>)
      [] OTHER -> \* isnull
            Comparison(key \o <<" ">> \o (IF ~truthy(v) THEN <<"I","S"," ","N","O","T">> ELSE <<"I","S">>)
                           \o <<" ","N","U","L","L">>, <<>>)

\* the branches taken when self.parametrized is true
parametrized_comparison(key, key_function, v, P) ==
    LET n == IntToStr(Len(str(v)))
    IN
    CASE key_function = <<"i","e","x","a","c","t">> ->
            IF v.t # "str" THEN Raised("AttributeError")
            ELSE Comparison(<<"U","P","P","E","R","(">> \o key \o <<")"," ","="," ">> \o P, <<StrV(upper(v.s))>>)
      [] key_function = <<"i","c","o","n","t","a","i","n","s">> ->
            IF v.t # "str" THEN Raised("AttributeError")
            ELSE Comparison(<<"U","P","P","E","R","(">> \o key \o <<")"," ","L","I","K","E"," ">> \o P,
                            <<StrV(<<"%">> \o upper(v.s) \o <<"%">>)>>)
      [] key_function = <<"c","o","n","t","a","i","n","s">> ->
            IF v.t # "str" THEN Raised("TypeError")
            ELSE Comparison(key \o <<" ","L","I","K","E"," ">> \o P, <<StrV(<<"%">> \o v.s \o <<"%">>)>>)
      [] key_function = <<"s","t","a","r","t","s","w","i","t","h">> ->
            Comparison(<<"L","E","F","T","(">> \o key \o <<","," ">> \o n \o <<")"," ","="," ">> \o P, <<>>)
      [] key_function = <<"e","n","d","s","w","i","t","h">> ->
            Comparison(<<"R","I","G","H","T","(">> \o key \o <<","," ">> \o n \o <<")"," ","="," ">> \o str(v), <<>>)
      [] key_function = <<"i","e","n","d","s","w","i","t","h">> ->
            IF v.t # "str" THEN Raised("AttributeError")
            ELSE Comparison(<<"U","P","P","E","R","(","R","I","G","H","T","(">> \o key \o <<","," ">> \o n \o <<")",")"," ","="," ">>
                                \o upper(v.s), <<>>)
      [] key_function = <<"i","s","t","a","r","t","s","w","i","t","h">> ->
            IF v.t # "str" THEN Raised("AttributeError")
            ELSE Comparison(<<"U","P","P","E","R","(","L","E","F","T","(">> \o key \o <<","," ">> \o n \o <<")",")"," ","="," ">> \o P,
                            <<StrV(upper(v.s))>>)
      [] key_function = <<"n","o","t","_","l","i","k","e">> -> Comparison(key \o <<" ","N","O","T"," ","L","I","K","E"," ">> \o P, <<>>)
      [] key_function = <<"l","t">> -> Comparison(key \o <<" ","<"," ">> \o P, <<>>)
      [] key_function = <<"l","t","e">> -> Comparison(key \o <<" ","<","="," ">> \o P, <<>>)
      [] key_function = <<"g","t">> -> Comparison(key \o <<" ",">"," ">> \o P, <<>>)
      [] key_function = <<"g","t","e">> -> Comparison(key \o <<" ",">","="," ">> \o P, <<>>)
      [] key_function = <<"i","n">> -> Comparison(key \o <<" ","I","N"," ">> \o P, <<>>)
      [] key_function = <<"n","o","t","_","i","n">> -> Comparison(key \o <<" ","N","O","T"," ","I","N"," ">> \o P, <<>>)
      [] OTHER -> Comparison(key \o <<" ","="," ">> \o P, <<>>)

\* "'%s'" % v for a str and "%s" % v otherwise
Literal(v) == IF v.t = "str" THEN Quoted(v.s) ELSE str(v)

\* the branches taken when self.parametrized is false
inline_comparison(key, key_function, v, P) ==
    LET n == IntToStr(Len(str(v)))
    IN
    CASE key_function = <<"i","e","x","a","c","t">> ->
            IF v.t # "str" THEN Raised("AttributeError")
            ELSE Comparison(<<"U","P","P","E","R","(">> \o key \o <<")"," ","="," ">> \o Quoted(upper(v.s)), <<>>)
      [] key_function = <<"i","c","o","n","t","a","i","n","s">> ->
            IF v.t # "str" THEN Raised("AttributeError")
            ELSE Comparison(<<"U","P","P","E","R","(">> \o key \o <<")"," ","L","I","K","E"," ">>
                                \o Quoted(<<"%">> \o upper(v.s) \o <<"%">>), <<>>)
      [] key_function = <<"c","o","n","t","a","i","n","s">> ->
            IF v.t # "str" THEN Raised("TypeError")
            ELSE Comparison(key \o <<" ","L","I","K","E"," ">> \o Quoted(<<"%">> \o v.s \o <<"%">>), <<>>)
      [] key_function = <<"s","t","a","r","t","s","w","i","t","h">> ->
            Comparison(<<"L","E","F","T","(">> \o key \o <<","," ">> \o n \o <<")"," ","="," ">> \o Quoted(str(v)), <<>>)
      [] key_function = <<"e","n","d","s","w","i","t","h">> ->
            Comparison(<<"R","I","G","H","T","(">> \o key \o <<","," ">> \o n \o <<")"," ","="," ">> \o Quoted(P), <<>>)
      [] key_function = <<"i","e","n","d","s","w","i","t","h">> ->
            IF v.t # "str" THEN Raised("AttributeError")
            ELSE Comparison(<<"U","P","P","E","R","(","R","I","G","H","T","(">> \o key \o <<","," ">> \o n \o <<")",")"," ","="," ">>
                                \o Quoted(P), <<StrV(upper(v.s))>>)
      [] key_function = <<"i","s","t","a","r","t","s","w","i","t","h">> ->
            IF v.t # "str" THEN Raised("AttributeError")
            ELSE Comparison(<<"U","P","P","E","R","(","L","E","F","T","(">> \o key \o <<","," ">> \o n \o <<")",")"," ","="," ">>
                                \o Quoted(upper(v.s)), <<>>)
      [] key_function = <<"n","o","t","_","l","i","k","e">> ->
            Comparison(key \o <<" ","N","O","T"," ","L","I","K","E"," ">> \o Quoted(str(v)), <<>>)
      [] key_function = <<"l","t">> -> Comparison(key \o <<" ","<"," ">> \o Literal(v), <<>>)
      [] key_function = <<"l","t","e">> -> Comparison(key \o <<" ","<","="," ">> \o Literal(v), <<>>)
      [] key_function = <<"g","t">> -> Comparison(key \o <<" ",">"," ">> \o Literal(v), <<>>)
      [] key_function = <<"g","t","e">> -> Comparison(key \o <<" ",">","="," ">> \o Literal(v), <<>>)
      [] key_function = <<"i","n">> -> Comparison(key \o <<" ","I","N"," ">> \o str(v), <<>>)
      [] key_function = <<"n","o","t","_","i","n">> -> Comparison(key \o <<" ","N","O","T"," ","I","N"," ">> \o str(v), <<>>)
      [] OTHER -> Comparison(key \o <<" ","="," ">> \o Literal(v), <<>>)

\* the if/elif chain of _process_filters: where_append and the values the
\* taken branch appends to where_values (the second "iendswith" arm of the
\* source is never reached)
where_append(key, key_function, v, parametrized, P) ==
    IF key_function \in {<<"l","e","n","g","t","h","_","l","t">>, <<"l","e","n","g","t","h","_","l","t","e">>, <<"l","e","n","g","t","h","_","g","t">>, <<"l","e","n","g","t","h","_","g","t","e">>,
                         <<"i","s","n","u","l","l">>}
    THEN fixed_comparison(key, key_function, v, P)
    ELSE IF parametrized THEN parametrized_comparison(key, key_function, v, P)
    ELSE inline_comparison(key, key_function, v, P)

\* the functions whose value is not appended to where_values before the chain
NotAppendedFirst == {<<"i","e","x","a","c","t">>, <<"i","c","o","n","t","a","i","n","s">>, <<"i","s","t","a","r","t","s","w","i","t","h">>, <<"i","e","n","d","s","w","i","t","h">>,
                     <<"c","o","n","t","a","i","n","s">>}

\* a changed combined: a group is opened with its second segment
combined_second(parts, w) ==
    CASE Len(parts) = 1 -> upper(parts[1]) \o <<" ">> \o w
      [] Len(parts) = 2 -> upper(parts[2]) \o <<" ","(">> \o w
      [] Len(parts) = 3 /\ upper(parts[3]) = <<"E","N","D">> -> upper(parts[2]) \o <<" ">> \o w \o <<")">>
      [] OTHER -> <<>>

\* a clause after the first: the combinator its operator suffix asks for
combined(parts, w) ==
    CASE Len(parts) = 1 -> upper(parts[1]) \o <<" ">> \o w
      [] Len(parts) = 2 -> upper(parts[1]) \o <<" ","(">> \o w
      [] Len(parts) = 3 /\ upper(parts[3]) = <<"E","N","D">> -> upper(parts[2]) \o <<" ">> \o w \o <<")">>
      [] OTHER -> <<>>

\* "%s %s" % (where_string, where_append): the first clause, and a clause
\* with an empty operator, stay without combinator
where_string(key_operator, w, n_wheres) ==
    IF Len(key_operator) > 0 /\ n_wheres > 0
    THEN combined(split(key_operator, <<"_">>), w) \o <<" ">>
    ELSE <<" ">> \o w

lookup_key_function(key_parts) == IF Len(key_parts) > 1 THEN key_parts[2] ELSE NoFunction

\* a changed lookup_key_operator: the operator is taken from the last part of the
\* key, whether or not a function precedes it
lookup_key_operator_last(key_parts) ==
    IF Len(key_parts) > 1 THEN key_parts[Len(key_parts)] ELSE <<"a","n","d">>

lookup_key_operator(key_parts) == IF Len(key_parts) > 2 THEN key_parts[3] ELSE <<"a","n","d">>

\* a changed first_values: the value is appended whatever the function
first_values_always(where_values, key_function, v) == Append(where_values, v)

\* where_values after "if key_function not in [...]: self.where_values.append(v)"
first_values(where_values, key_function, v) ==
    IF key_function \notin NotAppendedFirst THEN Append(where_values, v) ELSE where_values

\* the loop of _process_filters over the lookups, from the i-th on
RECURSIVE process_lookups(_, _, _, _, _, _, _)

\* the end of one turn of the loop: c is the comparison of the i-th lookup
emit_lookup(kwargs, i, wheres, values, lookup, parametrized, P, key_operator, c) ==
    IF c.err # ""
    THEN [err |-> c.err, wheres |-> wheres, where_values |-> values]
    ELSE process_lookups(kwargs, i + 1,
             Append(wheres, where_string(key_operator, c.where_append, Len(wheres))),
             values \o c.vals, lookup, parametrized, P)

\* one turn of the loop, for a lookup whose value is not None
process_lookup(kwargs, i, wheres, where_values, lookup, parametrized, P, key_parts) ==
    emit_lookup(kwargs, i, wheres,
                first_values(where_values, lookup_key_function(key_parts), kwargs[i].v),
                lookup, parametrized, P, lookup_key_operator(key_parts),
                where_append(DictGet(lookup, key_parts[1], key_parts[1]),
                             lookup_key_function(key_parts), kwargs[i].v, parametrized, P))

process_lookups(kwargs, i, wheres, where_values, lookup, parametrized, P) ==
    IF i > Len(kwargs)
    THEN [err |-> "", wheres |-> wheres, where_values |-> where_values]
    ELSE IF kwargs[i].v.t = "none"
    THEN process_lookups(kwargs, i + 1, wheres, where_values, lookup, parametrized, P)
    ELSE process_lookup(kwargs, i, wheres, where_values, lookup, parametrized, P,
                        split(kwargs[i].k, <<"_","_">>))

\* " ".join(wheres).replace("  ", " ").strip()
where_return(r) ==
    [err |-> r.err,
     where |-> strip(replace(join(<<" ">>, r.wheres), <<" "," ">>, <<" ">>)),
     where_values |-> r.where_values]

\* _process_filters(**kwargs): the values are appended to self.where_values as
\* filter() left it
_process_filters(where_values, kwargs, lookup, parametrized, P) ==
    where_return(process_lookups(kwargs, 1, <<>>, where_values, lookup, parametrized, P))

(***************************************************************************)
(* Objects._build_query and BaseDBClass._db_query                          *)
(***************************************************************************)
IsTop(dc) == TagHas(dc, "mssql") \/ TagHas(dc, "pyodbc")

\* where, join_where and order_by are empty when falsy; limit is 0 when falsy
_build_query(dc, table, join_where, columns, where, order_by, limit) ==
    (IF limit # 0 /\ IsTop(dc)
     THEN <<"S","E","L","E","C","T"," ","T","O","P"," ","(">> \o IntToStr(limit) \o <<")"," ">> ELSE <<"S","E","L","E","C","T"," ">>)
    \o join(<<",">>, columns) \o <<" ","F","R","O","M"," ">> \o table
    \o (IF Len(where) > 0 THEN <<" ","W","H","E","R","E"," ">> \o where ELSE <<>>)
    \o (IF Len(join_where) = 0 THEN <<>>
        ELSE IF Len(where) > 0 THEN <<" ","A","N","D"," ">> \o join_where
        ELSE <<" ","W","H","E","R","E"," ">> \o join_where)
    \o (IF Len(order_by) > 0 THEN <<" ","O","R","D","E","R"," ","B","Y"," ">> \o order_by ELSE <<>>)
    \o (IF limit # 0 /\ ~IsTop(dc) THEN <<" ","L","I","M","I","T"," ">> \o IntToStr(limit) ELSE <<>>)
    \o <<";">>

\* what the session is asked to do: cursor.execute(query[, real_values]),
\* conn.commit() and cursor.fetchall() with the rows it returned
Execute(sql, bound, params, ok) ==
    [ev |-> "execute", sql |-> sql, bound |-> bound, params |-> params, ok |-> ok,
     rows |-> <<>>]
Commit ==
    [ev |-> "commit", sql |-> <<>>, bound |-> FALSE, params |-> <<>>, ok |-> TRUE,
     rows |-> <<>>]
FetchAll(rows) ==
    [ev |-> "fetchall", sql |-> <<>>, bound |-> FALSE, params |-> <<>>, ok |-> TRUE,
     rows |-> rows]

\* the session failed a statement of the log
FailedExecute(log) == \E i \in 1..Len(log) : log[i].ev = "execute" /\ ~log[i].ok

\* the statements after which _db_query commits
commits_after(query) ==
    startswith(upper(query), <<"I","N","S","E","R","T">>) \/ startswith(upper(query), <<"U","P","D","A","T","E">>)

\* _db_query(query, real_values): given is false when real_values is left at its
\* default False; ok is whether the session's execute succeeds.  An exception of
\* execute is logged and swallowed; tuple(False) on mssql is raised to the caller.
_db_query(dc, query, given, real_values, ok) ==
    IF dc = "mssql" /\ ~given
    THEN [err |-> "TypeError", log |-> <<>>]
    ELSE [err |-> "",
          log |-> <<Execute(query, given /\ Len(real_values) > 0,
                            IF given THEN real_values ELSE <<>>, ok)>>
                  \o (IF ok /\ commits_after(query) THEN <<Commit>> ELSE <<>>)]

(***************************************************************************)
(* FieldDescriptor: Field.set_value and process_value of the field classes *)
(***************************************************************************)
\* what int(s) accepts: optional surrounding blanks, an optional sign, digits
signed_digits(t) ==
    IF Len(t) > 0 /\ t[1] \in {"-", "+"} THEN IsDigitString(Tail(t)) ELSE IsDigitString(t)
IsIntLiteral(s) == signed_digits(strip(s))

\* int(s) for a str that int() accepts
signed_int(t) ==
    IF t[1] = "-" THEN 0 - StrToInt(Tail(t))
    ELSE IF t[1] = "+" THEN StrToInt(Tail(t))
    ELSE StrToInt(t)
int(s) == signed_int(strip(s))

\* the field classes: Field itself ("field"), IntegerField, AutoField,
\* BooleanField, CharField, TextField, DateField, DateTimeField, DecimalField
\* and FloatField
FieldKinds ==
    {"field", "int", "auto", "bool", "char", "text", "date", "datetime", "decimal", "float"}
IntegerKinds == {"int", "auto", "bool"}

\* isinstance(value, field_data_type): a bool is an int, a datetime is a date;
\* the field_data_type of Field itself is the tuple of all types
isinstance(kind, v) ==
    CASE kind \in IntegerKinds -> v.t \in {"int", "bool"}
      [] kind \in {"char", "text"} -> v.t = "str"
      [] kind = "float" -> v.t = "float"
      [] kind = "decimal" -> v.t = "decimal"
      [] kind = "date" -> v.t \in {"date", "datetime"}
      [] kind = "datetime" -> v.t = "datetime"
      [] OTHER -> v.t # "none"

Converted(value) == [err |-> "", value |-> value]
Raising(err, value) == [err |-> err, value |-> value]

\* a number as written with a point: digits, a point, digits
point_parts(parts) ==
    Len(parts) = 2 /\ signed_digits(parts[1]) /\ IsDigitString(parts[2])
IsPointLiteral(s) == point_parts(split(strip(s), <<".">>))

\* the digits after the point without trailing zeros, "0" if none is left
RECURSIVE fraction_digits(_)
fraction_digits(d) ==
    IF Len(d) = 0 THEN <<"0">>
    ELSE IF d[Len(d)] = "0" THEN fraction_digits(SubSeq(d, 1, Len(d) - 1))
    ELSE d

\* float(s) for a str written as an int or with a point
point_float(parts) == FloatV(signed_int(parts[1]), fraction_digits(parts[2]))
float_of_str(s) ==
    IF IsIntLiteral(s) THEN FloatV(int(s), <<"0">>) ELSE point_float(split(strip(s), <<".">>))

\* int(v): of a str as written, of a float and of a Decimal by truncation
int_of(v) ==
    CASE v.t = "str" ->
            IF IsIntLiteral(v.s) THEN Converted(IntV(int(v.s))) ELSE Raising("ValueError", v)
      [] v.t = "float" -> Converted(IntV(v.n))
      [] v.t = "decimal" -> Converted(IntV(signed_int(split(v.s, <<".">>)[1])))
      [] OTHER -> Raising("TypeError", v)

\* float(v)
float_of(v) ==
    CASE v.t \in {"int", "bool"} -> Converted(FloatV(v.n, <<"0">>))
      [] v.t \in {"str", "decimal"} ->
            IF IsIntLiteral(v.s) \/ IsPointLiteral(v.s) THEN Converted(float_of_str(v.s))
            ELSE Raising("ValueError", v)
      [] OTHER -> Raising("TypeError", v)

\* Decimal(f) of a float is the exact value of the binary fraction
exact_digits(v) ==
    CASE v.s = <<"0">> -> IntToStr(v.n)
      [] v.s = <<"5">> -> IntToStr(v.n) \o <<".","5">>
      [] v = FloatV(3, <<"7">>) -> <<"3",".","7","0","0","0","0","0","0","0","0","0","0","0","0","0","0","1","7","7","6","3","5","6","8","3","9","4","0","0","2","5","0","4","6","4","6","7","7","8","1","0","6","6","8","9","4","5","3","1","2","5">>

\* Decimal(v)
Decimal(v) ==
    CASE v.t \in {"int", "bool"} -> Converted(DecimalV(IntToStr(v.n)))
      [] v.t = "str" ->
            IF IsIntLiteral(v.s) \/ IsPointLiteral(v.s) THEN Converted(DecimalV(strip(v.s)))
            ELSE Raising("InvalidOperation", v)
      [] v.t = "float" -> Converted(DecimalV(exact_digits(v)))
      [] OTHER -> Raising("TypeError", v)

\* self.field_data_type(self.value) where field_data_type is one type
field_data_type(kind, v) ==
    CASE kind \in {"char", "text"} -> Converted(StrV(str(v)))
      [] kind = "float" -> float_of(v)
      [] OTHER -> Decimal(v)

\* Field.process_value, which CharField, TextField, FloatField and
\* DecimalField inherit: the conversion is stored when it succeeds, and
\* TypeError is raised whether it does or not; the tuple of Field itself is
\* not callable
Field_process_value(kind, v) ==
    IF kind = "field" THEN Raising("TypeError", v)
    ELSE Raising("TypeError", field_data_type(kind, v).value)

\* IntegerField.process_value: ValueError becomes TypeError, TypeError is
\* not caught
IntegerField_process_value(v) ==
    IF int_of(v).err = "" THEN int_of(v) ELSE Raising("TypeError", v)

\* value[a:b] of a str
Slice(s, a, b) ==
    IF a >= Len(s) THEN <<>> ELSE SubSeq(s, a + 1, IF b < Len(s) THEN b ELSE Len(s))

IsLeap(year) == year % 4 = 0 /\ (year % 100 # 0 \/ year % 400 = 0)
DaysIn(year, month) ==
    IF month \in {4, 6, 9, 11} THEN 30
    ELSE IF month = 2 THEN (IF IsLeap(year) THEN 29 ELSE 28)
    ELSE 31

\* datetime.datetime(year=, month=, day=).date()
date_of(year, month, day) ==
    IF year \in 1..9999 /\ month \in 1..12 /\ day \in 1..DaysIn(year, month)
    THEN Converted(DateV(year * 10000 + month * 100 + day))
    ELSE Raising("ValueError", NoneV)

\* BaseDateTimeField.interpret_date(value) for a str: YYYYMMDD
interpret_date(s) ==
    IF IsIntLiteral(Slice(s, 0, 4)) /\ IsIntLiteral(Slice(s, 4, 6))
           /\ IsIntLiteral(Slice(s, 6, 8))
    THEN date_of(int(Slice(s, 0, 4)), int(Slice(s, 4, 6)), int(Slice(s, 6, 8)))
    ELSE Raising("ValueError", NoneV)

\* datetime.time(hour=, minute=, second=), as the digits hhmmss
time_of(hour, minute, second) ==
    IF hour \in 0..23 /\ minute \in 0..59 /\ second \in 0..59
    THEN Converted(StrV(zero_padded(hour, 2) \o zero_padded(minute, 2)
                            \o zero_padded(second, 2)))
    ELSE Raising("ValueError", NoneV)

\* BaseDateTimeField.interpret_time(value) for a str: HHMM or HHMMSS
interpret_time(s) ==
    IF IsIntLiteral(Slice(s, 0, 2)) /\ IsIntLiteral(Slice(s, 2, 4))
           /\ (Len(s) = 6 => IsIntLiteral(Slice(s, 4, 6)))
    THEN time_of(int(Slice(s, 0, 2)), int(Slice(s, 2, 4)),
                 IF Len(s) = 6 THEN int(Slice(s, 4, 6)) ELSE 0)
    ELSE Raising("ValueError", NoneV)

\* DateField.process_value: a value that cannot be sliced raises TypeError,
\* ValueError becomes TypeError
DateField_process_value(v) ==
    IF v.t = "str" /\ interpret_date(v.s).err = "" THEN interpret_date(v.s)
    ELSE Raising("TypeError", v)

\* the texts YYYY-MM-DD and YYYY-MM-DD HH:MM:SS
IsIsoDate(s) ==
    /\ Len(s) = 10
    /\ s[5] = "-" /\ s[8] = "-"
    /\ IsDigitString(SubSeq(s, 1, 4)) /\ IsDigitString(SubSeq(s, 6, 7))
    /\ IsDigitString(SubSeq(s, 9, 10))
    /\ date_of(StrToInt(SubSeq(s, 1, 4)), StrToInt(SubSeq(s, 6, 7)),
               StrToInt(SubSeq(s, 9, 10))).err = ""
IsIsoTime(s) ==
    /\ Len(s) = 8
    /\ s[3] = ":" /\ s[6] = ":"
    /\ IsDigitString(SubSeq(s, 1, 2)) /\ IsDigitString(SubSeq(s, 4, 5))
    /\ IsDigitString(SubSeq(s, 7, 8))
    /\ time_of(StrToInt(SubSeq(s, 1, 2)), StrToInt(SubSeq(s, 4, 5)),
               StrToInt(SubSeq(s, 7, 8))).err = ""
iso_ymd(s) == StrToInt(SubSeq(s, 1, 4) \o SubSeq(s, 6, 7) \o SubSeq(s, 9, 10))
iso_hms(s) == SubSeq(s, 1, 2) \o SubSeq(s, 4, 5) \o SubSeq(s, 7, 8)

\* dateutil.parser.parse(value), for the texts given to it here: an ISO date,
\* an ISO date and time, or a text without a digit; anything but a str raises
\* TypeError
parse(v) ==
    IF v.t # "str" THEN Raising("TypeError", v)
    ELSE IF IsIsoDate(v.s) THEN Converted(DateTimeV(iso_ymd(v.s), <<"0","0","0","0","0","0">>))
    ELSE IF Len(v.s) = 19 /\ v.s[11] = " " /\ IsIsoDate(SubSeq(v.s, 1, 10))
                /\ IsIsoTime(SubSeq(v.s, 12, 19))
    THEN Converted(DateTimeV(iso_ymd(SubSeq(v.s, 1, 10)), iso_hms(SubSeq(v.s, 12, 19))))
    ELSE Raising("ParserError", v)

\* the fallback of DateTimeField.process_value for a str that parse rejects:
\* "date_value, time_value = self.value.split(' ')", both interpreted
datetime_of_parts(v, parts) ==
    IF Len(parts) # 2 THEN Raising("ValueError", v)
    ELSE IF interpret_date(parts[1]).err # "" \/ interpret_time(parts[2]).err # ""
    THEN Raising("ValueError", v)
    ELSE Converted(DateTimeV(interpret_date(parts[1]).value.n,
                             interpret_time(parts[2]).value.s))

\* DateTimeField.process_value: when parse raises and the value is no str,
\* nothing is done
DateTimeField_process_value(v) ==
    IF parse(v).err = "" THEN parse(v)
    ELSE IF v.t = "str" THEN datetime_of_parts(v, split(v.s, <<" ">>))
    ELSE Converted(v)

\* process_value() of the class of the field: the value the field holds
\* afterwards and the exception raised, if any
process_value(kind, v) ==
    CASE kind \in IntegerKinds -> IntegerField_process_value(v)
      [] kind = "date" -> DateField_process_value(v)
      [] kind = "datetime" -> DateTimeField_process_value(v)
      [] OTHER -> Field_process_value(kind, v)

\* Field.set_value(value): the value the field holds afterwards, or the error
set_value(kind, v) ==
    IF v.t # "none" /\ ~isinstance(kind, v)
    THEN process_value(kind, v)
    ELSE [err |-> "", value |-> v]

(***************************************************************************)
(* ModelBinding: the declared models and Model.__init__                    *)
(***************************************************************************)
\* the field_type and max_length the __init__ of a field class leaves when the
\* keyword is not given; kind names the class: "field" is Field itself
class_field_type(kind) ==
    CASE kind \in {"int", "auto", "bool"} -> StrV(<<"I","N","T","E","G","E","R">>)
      [] kind = "char" -> StrV(<<"V","A","R","C","H","A","R">>)
      [] kind = "date" -> StrV(<<"D","A","T","E">>)
      [] kind = "datetime" -> StrV(<<"D","A","T","E","T","I","M","E">>)
      [] kind = "decimal" -> StrV(<<"D","E","C","I","M","A","L">>)
      [] kind = "float" -> StrV(<<"F","L","O","A","T">>)
      [] kind = "text" -> StrV(<<"T","E","X","T">>)
      [] OTHER -> NoneV
class_max_length(kind) ==
    CASE kind \in {"int", "auto"} -> IntV(11)
      [] kind = "bool" -> IntV(1)
      [] kind = "char" -> IntV(64)
      [] kind = "decimal" -> StrV(<<"8",","," ","6">>)
      [] OTHER -> NoneV

\* a Field attribute of a model class; db_field is empty when not given.
\* py holds the attributes of the instance that Objects reads through get_val
FieldDecl(attr, kind, db_field, primary_key) ==
    [attr |-> attr, kind |-> kind, db_field |-> db_field, primary_key |-> primary_key,
     is_function |-> FALSE, db_table |-> <<>>,
     py |-> [field_type |-> class_field_type(kind),
             max_length |-> class_max_length(kind),
             null_field |-> BoolV(FALSE),
             field_auto_increment |-> BoolV(kind = "auto"),
             field_default_value |-> BoolV(FALSE)]]

\* keywords of the declaration: field_type=..., auto_increment=True, null=True,
\* default=...
with_field_type(f, t) == [f EXCEPT !.py.field_type = StrV(t)]
with_auto_increment(f) == [f EXCEPT !.py.field_auto_increment = BoolV(TRUE)]
with_db_table(f, t) == [f EXCEPT !.db_table = t]
with_null(f) == [f EXCEPT !.py.null_field = BoolV(TRUE)]
with_default(f, v) == [f EXCEPT !.py.field_default_value = v]

\* the join attributes of class Meta: joined, joined_on and join_on, empty when
\* not declared
NoJoin == [joined |-> FALSE, joined_on |-> <<>>, join_on |-> <<>>]

\* class Plain(Model): pass
Plain ==
    [id |-> "Plain", class_name |-> <<"P","l","a","i","n">>, meta |-> FALSE,
     meta_db_table |-> <<>>, meta_primary_key |-> <<>>, meta_join |-> NoJoin, fields |-> <<>>]

\* class Person(Model): ID = IntegerField(); name = CharField()
Person ==
    [id |-> "Person", class_name |-> <<"P","e","r","s","o","n">>, meta |-> FALSE,
     meta_db_table |-> <<>>, meta_primary_key |-> <<>>, meta_join |-> NoJoin,
     fields |-> <<FieldDecl(<<"I","D">>, "int", <<>>, FALSE),
                  FieldDecl(<<"n","a","m","e">>, "char", <<>>, FALSE)>>]

\* class Member(Model):
\*     member_id = IntegerField(db_field="MemberID", primary_key=True)
\*     name = CharField(db_field="Name")
\*     class Meta: db_table = "Members"; primary_key = "MemberID"
Member ==
    [id |-> "Member", class_name |-> <<"M","e","m","b","e","r">>, meta |-> TRUE,
     meta_db_table |-> <<"M","e","m","b","e","r","s">>, meta_primary_key |-> <<"M","e","m","b","e","r","I","D">>,
     meta_join |-> NoJoin,
     fields |-> <<FieldDecl(<<"m","e","m","b","e","r","_","i","d">>, "int", <<"M","e","m","b","e","r","I","D">>, TRUE),
                  FieldDecl(<<"n","a","m","e">>, "char", <<"N","a","m","e">>, FALSE)>>]

\* class Dup(Model): a = CharField(db_field="col"); b = CharField(db_field="col")
Dup ==
    [id |-> "Dup", class_name |-> <<"D","u","p">>, meta |-> FALSE,
     meta_db_table |-> <<>>, meta_primary_key |-> <<>>, meta_join |-> NoJoin,
     fields |-> <<FieldDecl(<<"a">>, "char", <<"c","o","l">>, FALSE),
                  FieldDecl(<<"b">>, "char", <<"c","o","l">>, FALSE)>>]

\* class Event(Model):
\*     ID = AutoField(primary_key=True)
\*     at = DateTimeField(null=True)
\*     day = DateField()
Event ==
    [id |-> "Event", class_name |-> <<"E","v","e","n","t">>, meta |-> FALSE,
     meta_db_table |-> <<>>, meta_primary_key |-> <<>>, meta_join |-> NoJoin,
     fields |-> <<FieldDecl(<<"I","D">>, "auto", <<>>, TRUE),
                  with_null(FieldDecl(<<"a","t">>, "datetime", <<>>, FALSE)),
                  FieldDecl(<<"d","a","y">>, "date", <<>>, FALSE)>>]

\* class Item(Model):
\*     data = Field(field_type="BLOB")
\*     id = IntegerField(auto_increment=True)
\*     label = Field(default="none")
\*     price = DecimalField()
\*     stamp = CharField(field_type="TIMESTAMP")
\*     weight = FloatField()
Item ==
    [id |-> "Item", class_name |-> <<"I","t","e","m">>, meta |-> FALSE,
     meta_db_table |-> <<>>, meta_primary_key |-> <<>>, meta_join |-> NoJoin,
     fields |-> <<with_field_type(FieldDecl(<<"d","a","t","a">>, "field", <<>>, FALSE), <<"B","L","O","B">>),
                  with_auto_increment(FieldDecl(<<"i","d">>, "int", <<>>, FALSE)),
                  with_default(FieldDecl(<<"l","a","b","e","l">>, "field", <<>>, FALSE), StrV(<<"n","o","n","e">>)),
                  FieldDecl(<<"p","r","i","c","e">>, "decimal", <<>>, FALSE),
                  with_field_type(FieldDecl(<<"s","t","a","m","p">>, "char", <<>>, FALSE), <<"T","I","M","E","S","T","A","M","P">>),
                  FieldDecl(<<"w","e","i","g","h","t">>, "float", <<>>, FALSE)>>]

\* class Track(Model):
\*     title = CharField()
\*     artist = CharField()
Track ==
    [id |-> "Track", class_name |-> <<"T","r","a","c","k">>, meta |-> FALSE,
     meta_db_table |-> <<>>, meta_primary_key |-> <<>>, meta_join |-> NoJoin,
     fields |-> <<FieldDecl(<<"t","i","t","l","e">>, "char", <<>>, FALSE),
                  FieldDecl(<<"a","r","t","i","s","t">>, "char", <<>>, FALSE)>>]

\* the joined model of the docstring of Model, with two tables:
\* class MyModel(Model):
\*     field_one = Field(db_field="Field")
\*     field_two = Field(db_field="MyDatabaseField", db_table="AnotherTable")
\*     class Meta:
\*         joined = True
\*         db_table = ["MyTable", "AnotherTable"]
\*         joined_on = "MyTable.field = AnotherTable.field"
MyModel ==
    [id |-> "MyModel", class_name |-> <<"M","y","M","o","d","e","l">>, meta |-> TRUE,
     meta_db_table |-> <<<<"M","y","T","a","b","l","e">>, <<"A","n","o","t","h","e","r","T","a","b","l","e">>>>, meta_primary_key |-> <<>>,
     meta_join |-> [joined |-> TRUE, joined_on |-> <<"M","y","T","a","b","l","e",".","f","i","e","l","d"," ","="," ","A","n","o","t","h","e","r","T","a","b","l","e",".","f","i","e","l","d">>,
                    join_on |-> <<>>],
     fields |-> <<FieldDecl(<<"f","i","e","l","d","_","o","n","e">>, "field", <<"F","i","e","l","d">>, FALSE),
                  with_db_table(FieldDecl(<<"f","i","e","l","d","_","t","w","o">>, "field", <<"M","y","D","a","t","a","b","a","s","e","F","i","e","l","d">>, FALSE),
                                <<"A","n","o","t","h","e","r","T","a","b","l","e">>)>>]

\* a joined model declared with the attribute Model.__init__ reads:
\* class Linked(Model):
\*     field_one = Field(db_field="Field")
\*     field_two = Field(db_field="MyDatabaseField", db_table="AnotherTable")
\*     class Meta:
\*         joined = True
\*         db_table = ["MyTable", "AnotherTable"]
\*         join_on = "MyTable.field = AnotherTable.field,MyTable.kind = AnotherTable.kind"
Linked ==
    [id |-> "Linked", class_name |-> <<"L","i","n","k","e","d">>, meta |-> TRUE,
     meta_db_table |-> <<<<"M","y","T","a","b","l","e">>, <<"A","n","o","t","h","e","r","T","a","b","l","e">>>>, meta_primary_key |-> <<>>,
     meta_join |-> [joined |-> TRUE, joined_on |-> <<>>,
                    join_on |-> <<"M","y","T","a","b","l","e",".","f","i","e","l","d"," ","="," ","A","n","o","t","h","e","r","T","a","b","l","e",".","f","i","e","l","d",",","M","y","T","a","b","l","e",".","k","i","n","d"," ","="," ","A","n","o","t","h","e","r","T","a","b","l","e",".","k","i","n","d">>],
     fields |-> <<FieldDecl(<<"f","i","e","l","d","_","o","n","e">>, "field", <<"F","i","e","l","d">>, FALSE),
                  with_db_table(FieldDecl(<<"f","i","e","l","d","_","t","w","o">>, "field", <<"M","y","D","a","t","a","b","a","s","e","F","i","e","l","d">>, FALSE),
                                <<"A","n","o","t","h","e","r","T","a","b","l","e">>)>>]

\* a joined model one of whose tables is named like the start of the other:
\* class Orders(Model):
\*     item = Field(db_field="Name", db_table="OrderItem")
\*     number = Field(db_field="Number", db_table="Order")
\*     class Meta:
\*         joined = True
\*         db_table = ["Order", "OrderItem"]
\*         join_on = "Order.id = OrderItem.order_id"
Orders ==
    [id |-> "Orders", class_name |-> <<"O","r","d","e","r","s">>, meta |-> TRUE,
     meta_db_table |-> <<<<"O","r","d","e","r">>, <<"O","r","d","e","r","I","t","e","m">>>>, meta_primary_key |-> <<>>,
     meta_join |-> [joined |-> TRUE, joined_on |-> <<>>,
                    join_on |-> <<"O","r","d","e","r",".","i","d"," ","="," ","O","r","d","e","r","I","t","e","m",".","o","r","d","e","r","_","i","d">>],
     fields |-> <<with_db_table(FieldDecl(<<"i","t","e","m">>, "field", <<"N","a","m","e">>, FALSE), <<"O","r","d","e","r","I","t","e","m">>),
                  with_db_table(FieldDecl(<<"n","u","m","b","e","r">>, "field", <<"N","u","m","b","e","r">>, FALSE),
                                <<"O","r","d","e","r">>)>>]

\* a joined model whose tables differ in a digit:
\* class Pair(Model):
\*     left = Field(db_field="A", db_table="Table1")
\*     right = Field(db_field="B", db_table="Table2")
\*     class Meta:
\*         joined = True
\*         db_table = ["Table1", "Table2"]
\*         join_on = "Table1.id = Table2.id"
Pair ==
    [id |-> "Pair", class_name |-> <<"P","a","i","r">>, meta |-> TRUE,
     meta_db_table |-> <<<<"T","a","b","l","e","1">>, <<"T","a","b","l","e","2">>>>, meta_primary_key |-> <<>>,
     meta_join |-> [joined |-> TRUE, joined_on |-> <<>>, join_on |-> <<"T","a","b","l","e","1",".","i","d"," ","="," ","T","a","b","l","e","2",".","i","d">>],
     fields |-> <<with_db_table(FieldDecl(<<"l","e","f","t">>, "field", <<"A">>, FALSE), <<"T","a","b","l","e","1">>),
                  with_db_table(FieldDecl(<<"r","i","g","h","t">>, "field", <<"B">>, FALSE), <<"T","a","b","l","e","2">>)>>]

\* a model whose Meta names the primary key and no table:
\* class Keyed(Model):
\*     key_id = IntegerField(db_field="KeyID", primary_key=True)
\*     name = CharField(db_field="Name")
\*     class Meta: primary_key = "KeyID"
Keyed ==
    [id |-> "Keyed", class_name |-> <<"K","e","y","e","d">>, meta |-> TRUE,
     meta_db_table |-> <<>>, meta_primary_key |-> <<"K","e","y","I","D">>, meta_join |-> NoJoin,
     fields |-> <<FieldDecl(<<"k","e","y","_","i","d">>, "int", <<"K","e","y","I","D">>, TRUE),
                  FieldDecl(<<"n","a","m","e">>, "char", <<"N","a","m","e">>, FALSE)>>]

Models == {Plain, Person, Member, Dup, Event, Item, Track, MyModel, Linked, Orders, Pair, Keyed}
ModelIds == {m.id : m \in Models}
ModelOf(id) == CHOOSE m \in Models : m.id = id

\* the characters _db_slug keeps: [a-z0-9-_ ]
SlugChars ==
    {LowerCase[i] : i \in 1..26} \cup {Digits[i] : i \in 1..10} \cup {"-", "_", " "}

\* Model._db_slug(value)
_db_slug(value) ==
    replace(SelectSeq(lower(value), LAMBDA c : c \in SlugChars), <<" ">>, <<"_">>)

\* Model.__init__ up to the construction of Objects: db_table (empty when
\* False) and pk
model_db_table(m) == IF m.meta THEN m.meta_db_table ELSE _db_slug(m.class_name)
model_pk(m) ==
    IF m.meta /\ Len(m.meta_primary_key) > 0 THEN m.meta_primary_key ELSE <<"I","D">>

\* Model.__init__: joined, and joined_on, which is read from Meta.join_on
model_joined(m) == m.meta /\ m.meta_join.joined
model_joined_on(m) == IF m.meta THEN m.meta_join.join_on ELSE <<>>

\* the Field attribute of the model named k, if any
HasField(m, k) == \E i \in 1..Len(m.fields) : m.fields[i].attr = k
FieldOf(m, k) == m.fields[CHOOSE i \in 1..Len(m.fields) : m.fields[i].attr = k]

(***************************************************************************)
(* QueryEngine: Objects.__init__                                           *)
(***************************************************************************)
\* get_val(attr, "db_field", attr_name)
attr_real_field(f) == IF Len(f.db_field) > 0 THEN f.db_field ELSE f.attr

\* the physical column of a field, quoted unless the field is a function
real_column(dc, f) ==
    IF f.is_function THEN attr_real_field(f) ELSE encap_string(dc, attr_real_field(f))

\* the name of the database, self.database: what the settings give as NAME
database == <<"d","b">>

\* the alias of a table: re.sub("[^a-z]", "", table_name.lower())
namespace_key(table_name) ==
    SelectSeq(lower(table_name), LAMBDA c : c \in {LowerCase[i] : i \in 1..26})

\* the entry of a table in the FROM clause of a join
join_string(dc, table_name) ==
    IF dc \in {"mssql", "pyodbc"} THEN table_name \o <<" ">> \o namespace_key(table_name)
    ELSE database \o <<".">> \o table_name \o <<" ">> \o namespace_key(table_name)

\* _init_join(): the loop over the tables, then table, join_where and the
\* aliases.  table_namespaces_lookup is a class-level dict; only a joined model
\* reads it, after it has entered its own tables
RECURSIVE _init_join(_, _, _, _, _, _)
_init_join(dc, tables, i, join_strings, join_on, namespaces_lookup) ==
    IF i > Len(tables)
    THEN [table |-> join(<<","," ">>, join_strings), join_where |-> join_on,
          tables |-> tables, table_namespaces_lookup |-> namespaces_lookup]
    ELSE _init_join(dc, tables, i + 1,
                    Append(join_strings, join_string(dc, tables[i])),
                    replace(replace(join_on, tables[i], namespace_key(tables[i])),
                            <<",">>, <<" ","A","N","D"," ">>),
                    DictSet(namespaces_lookup, tables[i], namespace_key(tables[i])))

\* table, join_where, tables and the aliases before the loop over the fields
tables_of(dc, m) ==
    IF model_joined(m)
    THEN _init_join(dc, m.meta_db_table, 1, <<>>, model_joined_on(m), <<>>)
    ELSE [table |-> model_db_table(m), join_where |-> <<>>, tables |-> <<>>,
          table_namespaces_lookup |-> <<>>]

\* the real column of a field of a model whose tables are t: qualified by the
\* alias of its table when the field names one and the model is joined
field_column(dc, f, t) ==
    IF ~f.is_function /\ Len(f.db_table) > 0 /\ Len(t.tables) > 0
    THEN DictGet(t.table_namespaces_lookup, f.db_table, <<"N","o","n","e">>) \o <<".">>
             \o encap_string(dc, attr_real_field(f))
    ELSE real_column(dc, f)

\* the loop of Objects.__init__ over the defined fields, in dir() order
RECURSIVE bind_fields(_, _, _, _, _, _, _)

\* one turn of the loop: c is the real column of the i-th field
bind_field(dc, fields, t, i, columns, lookup, reverse, c) ==
    bind_fields(dc, fields, t, i + 1,
                Append(columns, c \o <<" ","A","S"," ">> \o fields[i].attr),
                DictSet(lookup, fields[i].attr, c),
                DictSet(reverse, c, fields[i].attr))

bind_fields(dc, fields, t, i, columns, lookup, reverse) ==
    IF i > Len(fields)
    THEN [columns |-> columns, column_lookup |-> lookup, column_lookup_reverse |-> reverse]
    ELSE bind_field(dc, fields, t, i, columns, lookup, reverse,
                    field_column(dc, fields[i], t))

\* get_val(attr, key, default) on a field: the default when the instance has no
\* attribute of that name, or holds None under it
get_val(py, key, default) ==
    IF key \in DOMAIN py /\ py[key].t # "none" THEN py[key] ELSE default

IntegerTypes ==
    {<<"I","N","T">>, <<"I","N","T","E","G","E","R">>, <<"T","I","N","Y","I","N","T">>, <<"S","M","A","L","L","I","N","T">>, <<"M","E","D","I","U","M","I","N","T">>, <<"B","I","G","I","N","T">>,
     <<"U","N","S","I","G","N","E","D"," ","B","I","G"," ","I","N","T">>, <<"I","N","T","2">>, <<"I","N","T","8">>}
CharacterTypes ==
    {<<"C","H","A","R","A","C","T","E","R">>, <<"V","A","R","C","H","A","R">>, <<"V","A","R","Y","I","N","G"," ","C","H","A","R","A","C","T","E","R">>, <<"C","H","A","R","A","C","T","E","R"," ","V","A","R","Y","I","N","G">>, <<"N","C","H","A","R">>,
     <<"N","A","T","I","V","E"," ","C","H","A","R","A","C","T","E","R">>, <<"N","V","A","R","C","H","A","R">>}
RealTypes == {<<"R","E","A","L">>, <<"D","O","U","B","L","E">>, <<"D","O","U","B","L","E"," ","P","R","E","C","I","S","I","O","N">>, <<"F","L","O","A","T">>}
NumericTypes == {<<"N","U","M","E","R","I","C">>, <<"D","E","C","I","M","A","L">>, <<"B","O","O","L","E","A","N">>, <<"D","A","T","E">>, <<"D","A","T","E","T","I","M","E">>}

\* _process_data_type(data_type, length): the pair (affinity, has_length)
_process_data_type(dc, data_type) ==
    [affinity |->
        IF dc # "sqlite" THEN data_type
        ELSE IF data_type \in IntegerTypes THEN <<"I","N","T","E","G","E","R">>
        ELSE IF data_type \in CharacterTypes \cup {<<"T","E","X","T">>, <<"C","L","O","B">>} THEN <<"T","E","X","T">>
        ELSE IF data_type \in RealTypes THEN <<"R","E","A","L">>
        ELSE IF data_type \in NumericTypes THEN <<"N","U","M","E","R","I","C">>
        ELSE data_type,
     has_length |-> dc = "psql" /\ data_type \in CharacterTypes]

\* the sqlite override after _process_data_type: "DATE" in field_definition
sqlite_definition(dc, field_definition) ==
    IF dc # "sqlite" THEN field_definition
    ELSE IF find(field_definition, <<"D","A","T","E">>, 1) # 0 THEN <<"T","E","X","T">>
    ELSE IF find(field_definition, <<"D","E","C","I","M","A","L">>, 1) # 0 THEN <<"R","E","A","L">>
    ELSE field_definition

\* the field_definition of a field before the primary-key suffix
field_definition(dc, f) ==
    sqlite_definition(dc,
        _process_data_type(dc, get_val(f.py, "field_type", StrV(<<"T","E","X","T">>)).s).affinity)

\* whether the field is taken as the primary key: its column is named like
\* pk_name, or it was declared primary_key
is_pk(f, pk_name) == attr_real_field(f) = pk_name \/ f.primary_key

\* the suffix for an auto-increment field
auto_increment_form(dc) ==
    IF dc = "sqlite" THEN <<" ","A","U","T","O","I","N","C","R","E","M","E","N","T">>
    ELSE IF dc = "psql" THEN <<" ","S","E","R","I","A","L">>
    ELSE <<" ","A","U","T","O","_","I","N","C","R","E","M","E","N","T">>

\* tabledef: the column definition of a field
tabledef(dc, f, t, pk_name) ==
    field_column(dc, f, t) \o <<" ">> \o field_definition(dc, f)
    \o (IF is_pk(f, pk_name) /\ dc = "sqlite" THEN <<" ","P","R","I","M","A","R","Y"," ","K","E","Y">> ELSE <<>>)
    \o (IF _process_data_type(dc, get_val(f.py, "field_type", StrV(<<"T","E","X","T">>)).s).has_length
        THEN <<" ","(">> \o str(get_val(f.py, "max_length", NoneV)) \o <<")">> ELSE <<>>)
    \o (IF ~truthy(get_val(f.py, "null_field", BoolV(FALSE))) THEN <<" ","N","O","T"," ","N","U","L","L">> ELSE <<>>)
    \o (IF truthy(get_val(f.py, "auto_increment", BoolV(FALSE)))
        THEN auto_increment_form(dc) ELSE <<>>)
    \o (IF truthy(get_val(f.py, "default", BoolV(FALSE)))
        THEN <<" ","D","E","F","A","U","L","T"," ","'">> \o str(get_val(f.py, "default", BoolV(FALSE))) \o <<"'">>
        ELSE <<>>)

\* the column definition appended when no field was taken as the primary key
synthetic_pk(dc, pk_name) ==
    IF dc = "sqlite" THEN encap_string(dc, pk_name) \o <<" ","B","I","G","I","N","T","(","2","0",")"," ","N","O","T"," ","N","U","L","L"," ","P","R","I","M","A","R","Y"," ","K","E","Y">>
    ELSE IF dc = "psql" THEN pk_name \o <<" ","S","E","R","I","A","L"," ","P","R","I","M","A","R","Y"," ","K","E","Y">>
    ELSE encap_string(dc, pk_name) \o <<" ","B","I","G","I","N","T","(","2","0",")"," ","N","O","T"," ","N","U","L","L"," ","A","U","T","O","_","I","N","C","R","E","M","E","N","T">>

\* the end of Objects.__init__ for table_definition
define_end(dc, pk_name, has_pk, defs) ==
    defs \o (IF has_pk THEN <<>> ELSE <<synthetic_pk(dc, pk_name)>>)
         \o (IF dc \notin {"sqlite", "psql"}
             THEN <<<<"K","E","Y","(">> \o encap_string(dc, pk_name) \o <<")">>>> ELSE <<>>)

\* the loop of Objects.__init__ over the defined fields, for table_definition
RECURSIVE define_fields(_, _, _, _, _, _, _)
define_fields(dc, fields, t, i, pk_name, has_pk, defs) ==
    IF i > Len(fields) THEN define_end(dc, pk_name, has_pk, defs)
    ELSE define_fields(dc, fields, t, i + 1,
                       IF is_pk(fields[i], pk_name) THEN field_column(dc, fields[i], t)
                       ELSE pk_name,
                       has_pk \/ is_pk(fields[i], pk_name),
                       Append(defs, tabledef(dc, fields[i], t, pk_name)))

\* the characters of attribute names in code-point order
CodePoints == <<"0","1","2","3","4","5","6","7","8","9">> \o UpperCase \o <<"_">> \o LowerCase
code_point(c) == CHOOSE i \in 1..Len(CodePoints) : CodePoints[i] = c

\* a < b for two names, as sorted() orders strings
RECURSIVE name_before(_, _)
name_before(a, b) ==
    IF Len(b) = 0 THEN FALSE
    ELSE IF Len(a) = 0 THEN TRUE
    ELSE IF a[1] # b[1] THEN code_point(a[1]) < code_point(b[1])
    ELSE name_before(Tail(a), Tail(b))

\* defined_fields: the Field attributes of the instance in the order of
\* dir(), which is sorted by attribute name
defined_fields(m) ==
    [i \in 1..Len(m.fields) |->
        m.fields[CHOOSE j \in 1..Len(m.fields) :
            Cardinality({k \in 1..Len(m.fields) :
                name_before(m.fields[k].attr, m.fields[j].attr)}) = i - 1]]

NoEngine ==
    [bound |-> FALSE, table |-> <<>>, pk |-> <<>>, columns |-> <<>>,
     join_where |-> <<>>, where_values |-> <<>>, parametrized |-> TRUE,
     table_definition |-> <<>>]

\* the instance Objects.__init__ leaves, b being the outcome of its loop
Objects_bound(dc, m, t, b) ==
    [err |-> IF Len(t.table) = 0 THEN "FailedToBind" ELSE "",
     column_lookup |-> b.column_lookup,
     column_lookup_reverse |-> b.column_lookup_reverse,
     engine |-> [bound |-> TRUE, table |-> t.table, pk |-> model_pk(m),
                 columns |-> IF Len(m.fields) > 0 THEN b.columns ELSE <<<<"*">>>>,
                 join_where |-> t.join_where, where_values |-> <<>>,
                 parametrized |-> TRUE,
                 table_definition |->
                     define_fields(dc, defined_fields(m), t, 1, <<"i","d">>, FALSE, <<>>)]]

\* Objects.__init__(table=..., model_instance=...) on the class-level maps it
\* finds: the new instance, the maps as it leaves them, and FailedToBind
\* when no table was passed
Objects_tables(dc, m, t, lookup, reverse) ==
    Objects_bound(dc, m, t, bind_fields(dc, defined_fields(m), t, 1, <<>>, lookup, reverse))
Objects__init__(dc, m, lookup, reverse) ==
    Objects_tables(dc, m, tables_of(dc, m), lookup, reverse)

(***************************************************************************)
(* ResultEntity: QueryObject                                               *)
(***************************************************************************)
NoEntity == [model |-> "", pk |-> <<>>, container |-> <<>>]

\* the loop of QueryObject.__init__ over the row: each value goes through the
\* model field of the same name; a key that names no field raises
RECURSIVE decode_items(_, _, _, _)

\* one turn of the loop: r is what set_value left in the field
decode_item(m, items, i, container, r) ==
    IF r.err # "" THEN [err |-> r.err, container |-> container]
    ELSE decode_items(m, items, i + 1, DictSet(container, items[i].k, r.value))

decode_items(m, items, i, container) ==
    IF i > Len(items) THEN [err |-> "", container |-> container]
    ELSE IF ~HasField(m, items[i].k) THEN [err |-> "AttributeError", container |-> container]
    ELSE decode_item(m, items, i, container,
                     set_value(FieldOf(m, items[i].k).kind, items[i].v))

QueryObject_decoded(m, r) ==
    [err |-> r.err,
     entity |-> [model |-> m.id, pk |-> Quoted(model_pk(m)), container |-> r.container]]

\* whether the rows of the dialect's cursor have items(): the sqlite connection
\* is given row_factory = sqlite3.Row, which has keys() but no items()
RowHasItems(dc) == dc # "sqlite"

\* QueryObject(items, objects_instance) for a row with columns:
\* self.container.items() raises on a row without items()
QueryObject__init__(dc, m, items) ==
    IF ~RowHasItems(dc) THEN [err |-> "AttributeError", entity |-> NoEntity]
    ELSE QueryObject_decoded(m, decode_items(m, items, 1, items))

\* the loop of filter over the rows fetched
RECURSIVE decode_rows(_, _, _, _, _)

decode_row(dc, m, rows, i, acc, r) ==
    IF r.err # "" THEN [err |-> r.err, value |-> <<>>]
    ELSE decode_rows(dc, m, rows, i + 1, Append(acc, r.entity))

decode_rows(dc, m, rows, i, acc) ==
    IF i > Len(rows) THEN [err |-> "", value |-> acc]
    ELSE decode_row(dc, m, rows, i, acc, QueryObject__init__(dc, m, rows[i]))

\* QueryObject.update(**kwargs): the container afterwards, or the error of
\* the first field whose value is rejected
RECURSIVE QueryObject_update(_, _, _, _)

update_item(m, container, kwargs, i, r) ==
    IF r.err # "" THEN [err |-> r.err, container |-> container]
    ELSE QueryObject_update(m, DictSet(container, kwargs[i].k, r.value), kwargs, i + 1)

QueryObject_update(m, container, kwargs, i) ==
    IF i > Len(kwargs) THEN [err |-> "", container |-> container]
    ELSE IF ~DictHas(container, kwargs[i].k)
    THEN QueryObject_update(m, container, kwargs, i + 1)
    ELSE IF ~HasField(m, kwargs[i].k) THEN [err |-> "AttributeError", container |-> container]
    ELSE update_item(m, container, kwargs, i,
                     set_value(FieldOf(m, kwargs[i].k).kind, kwargs[i].v))

(***************************************************************************)
(* QueryEngine: filter, get, all, create, update, delete                   *)
(***************************************************************************)
Options(parametrized, result_limit, select_all) ==
    [parametrized |-> parametrized, result_limit |-> result_limit,
     select_all |-> select_all]
DefaultOptions == Options(TRUE, 0, FALSE)

Outcome(err, value, log, engine) ==
    [err |-> err, value |-> value, log |-> log, engine |-> engine]

\* the end of filter: d is the outcome of decoding the rows fetched
filter_results(self, log, d) == Outcome(d.err, d.value, log, self)

\* _fetch_all() and the loop over its rows; a failed statement has no rows
filter_rows(self, dc, m, log, rows) ==
    filter_results(self, log \o <<FetchAll(rows)>>, decode_rows(dc, m, rows, 1, <<>>))

\* filter after _db_query returned q: an exception of _db_query is swallowed
\* by the bare except, else the rows are fetched and decoded
filter_fetch(self, dc, m, ok, rows, q) ==
    IF q.err # "" THEN Outcome("", <<>>, q.log, self)
    ELSE filter_rows(self, dc, m, q.log, IF ok THEN rows ELSE <<>>)

\* filter after _process_filters returned pf, whose exception propagates
filter_query(dc, eng, m, opts, ok, rows, pf, self) ==
    IF pf.err # "" THEN Outcome(pf.err, <<>>, <<>>, self)
    ELSE filter_fetch(self, dc, m, ok, rows,
             _db_query(dc,
                       _build_query(dc, eng.table, eng.join_where, eng.columns, pf.where,
                                    <<>>, opts.result_limit),
                       opts.parametrized, pf.where_values, ok))

\* filter up to the query: self.parametrized and self.where_values are assigned
filter_where(dc, eng, m, opts, ok, rows, pf) ==
    filter_query(dc, eng, m, opts, ok, rows, pf,
                 [eng EXCEPT !.parametrized = opts.parametrized,
                             !.where_values = pf.where_values])

\* a changed filter_reset: the list of the call before is kept
filter_keep(where_values) == where_values

\* "self.where_values = []" at the start of filter
filter_reset(where_values) == <<>>

\* Objects.filter(**kwargs) after the control keywords were popped into opts.
\* ok: whether the session executes the statement; rows: what fetchall then
\* returns.  The outcome carries the instance as filter leaves it.
filter(dc, eng, m, lookup, kwargs, opts, ok, rows) ==
    filter_where(dc, eng, m, opts, ok, rows,
                 IF opts.select_all
                 THEN [err |-> "", where |-> <<>>,
                       where_values |-> filter_reset(eng.where_values)]
                 ELSE _process_filters(filter_reset(eng.where_values), kwargs, lookup,
                                       opts.parametrized, _param_string(dc)))

\* a changed get_one: the first of several rows is returned
get_first(r) ==
    IF r.err # "" THEN r
    ELSE IF Len(r.value) = 0 THEN [r EXCEPT !.err = "ObjectDoesNotExist"]
    ELSE [r EXCEPT !.value = <<r.value[1]>>]

\* the end of get: r is what filter returned
get_one(r) ==
    IF r.err # "" THEN r
    ELSE IF Len(r.value) = 0 THEN [r EXCEPT !.err = "ObjectDoesNotExist"]
    ELSE IF Len(r.value) > 1
    THEN [r EXCEPT !.err = "MultipleObjectsReturned", !.value = <<>>]
    ELSE [r EXCEPT !.value = <<r.value[1]>>]

\* Objects.get(**kwargs)
get(dc, eng, m, lookup, kwargs, opts, ok, rows) ==
    get_one(filter(dc, eng, m, lookup, kwargs, opts, ok, rows))

\* Objects.all(**kwargs)
all(dc, eng, m, lookup, kwargs, opts, ok, rows) ==
    filter(dc, eng, m, lookup, kwargs, [opts EXCEPT !.select_all = TRUE], ok, rows)

DictValues(d) == [i \in 1..Len(d) |-> d[i].v]

\* a changed statement_done: a failed statement leaves the engine without its
\* column list
statement_reset(eng, q) ==
    Outcome(q.err, <<>>, q.log, IF FailedExecute(q.log) THEN [eng EXCEPT !.columns = <<>>] ELSE eng)

\* a statement that returns nothing: q is what _db_query returned
statement_done(eng, q) == Outcome(q.err, <<>>, q.log, eng)

insert_fields(dc, lookup, kwargs) ==
    [i \in 1..Len(kwargs) |-> encap_string(dc, DictGet(lookup, kwargs[i].k, kwargs[i].k))]
insert_values(dc, kwargs) == [i \in 1..Len(kwargs) |-> _param_string(dc)]

\* Objects.create(**kwargs)
create(dc, eng, lookup, kwargs, ok) ==
    statement_done(eng,
        _db_query(dc,
                  join(<<" ">>, <<<<"I","N","S","E","R","T"," ","I","N","T","O">>, encap_string(dc, eng.table),
                                <<"(">> \o join(<<",">>, insert_fields(dc, lookup, kwargs)) \o <<")">>,
                                <<"V","A","L","U","E","S">>,
                                <<"(">> \o join(<<",">>, insert_values(dc, kwargs)) \o <<")">>>>)
                      \o <<";">>,
                  TRUE, DictValues(kwargs), ok))

update_values(dc, lookup, fields) ==
    [i \in 1..Len(fields) |->
        encap_string(dc, DictGet(lookup, fields[i].k, fields[i].k))
            \o <<"=">> \o _param_string(dc)]

\* fields.get(self.model_instance.pk)
pk_value(eng, fields) == DictGet(fields, eng.pk, NoneV)

\* the WHERE clause of update: the primary-key column and a placeholder
update_where(dc, eng) == encap_string(dc, eng.pk) \o <<"=","%","s">>

\* the end of update: q is what _db_query returned for the UPDATE, g what
\* self.get returned
update_get(eng, q, g) ==
    IF q.err # "" THEN Outcome(q.err, <<>>, q.log, eng)
    ELSE [g EXCEPT !.log = q.log \o g.log]

\* Objects.update(**fields): the UPDATE, then self.get on the primary key;
\* ok2 and rows are the session's answers to the SELECT of that get
update(dc, eng, m, lookup, fields, ok, ok2, rows) ==
    update_get(eng,
        _db_query(dc,
                  join(<<" ">>, <<<<"U","P","D","A","T","E">>, encap_string(dc, eng.table), <<"S","E","T">>,
                                join(<<",">>, update_values(dc, lookup, fields)),
                                <<"W","H","E","R","E">>, update_where(dc, eng)>>) \o <<";">>,
                  TRUE, Append(DictValues(fields), pk_value(eng, fields)), ok),
        get(dc, eng, m, lookup, <<[k |-> eng.pk, v |-> pk_value(eng, fields)]>>,
            DefaultOptions, ok2, rows))

\* the WHERE clause of delete: the primary-key column and the value
delete_where(dc, eng, fields) ==
    encap_string(dc, eng.pk) \o <<"=">> \o str(pk_value(eng, fields))

\* Objects.delete(**fields)
delete(dc, eng, fields, ok) ==
    statement_done(eng,
        _db_query(dc,
                  join(<<" ">>, <<<<"D","E","L","E","T","E"," ","F","R","O","M">>, encap_string(dc, eng.table), <<"W","H","E","R","E">>,
                                delete_where(dc, eng, fields)>>) \o <<";">>,
                  FALSE, <<>>, ok))

NewLine == "\n"

\* Objects.create_table(): the column definitions, one per line
create_table(dc, eng, ok) ==
    statement_done(eng,
        _db_query(dc,
                  <<"C","R","E","A","T","E"," ","T","A","B","L","E"," ">> \o encap_string(dc, eng.table) \o <<" ","(">> \o <<NewLine>>
                      \o join(<<",">> \o <<NewLine>>, eng.table_definition)
                      \o <<NewLine>> \o <<")",";">>,
                  FALSE, <<>>, ok))

\* Objects.drop_table()
drop_table(dc, eng, ok) ==
    statement_done(eng,
        _db_query(dc, <<"D","R","O","P"," ","T","A","B","L","E"," ">> \o encap_string(dc, eng.table) \o <<";">>,
                  FALSE, <<>>, ok))

\* Objects.truncate_table()
truncate_table(dc, eng, ok) ==
    statement_done(eng,
        _db_query(dc, <<"T","R","U","N","C","A","T","E"," ","T","A","B","L","E"," ">> \o encap_string(dc, eng.table) \o <<";">>,
                  FALSE, <<>>, ok))

\* the number of positional arguments "def delete(self, **fields)" accepts
\* besides self
delete_positional == 0

\* QueryObject.delete(): self.objects_instance.delete(self.container) passes
\* the container as one positional argument
QueryObject_delete(dc, eng, container, ok) ==
    IF 1 > delete_positional
    THEN Outcome("TypeError", <<>>, <<>>, eng)
    ELSE delete(dc, eng, container, ok)

\* QueryObject.save(): self.objects_instance.update(**self.container)
QueryObject_save(dc, eng, m, lookup, container, ok, ok2, rows) ==
    update(dc, eng, m, lookup, container, ok, ok2, rows)

(***************************************************************************)
(* The inputs the caller and the session draw from                         *)
(***************************************************************************)
Entry(k, v) == [k |-> k, v |-> v]

\* the sequences over S of length at most n
RECURSIVE SeqsUpTo(_, _)
SeqsUpTo(S, n) ==
    IF n = 0 THEN {<<>>}
    ELSE LET shorter == SeqsUpTo(S, n - 1)
         IN  shorter \cup {Append(s, x) : s \in {t \in shorter : Len(t) = n - 1}, x \in S}

\* keyword arguments: no key twice
DistinctKeys(kwargs) ==
    \A i, j \in 1..Len(kwargs) : kwargs[i].k = kwargs[j].k => i = j

\* the raw value a session returns for the n-th row of a column of an int / a
\* char field: drivers hand an integer column back as an int or as its text
RawValue(kind, n, as_text) ==
    IF kind = "int" THEN (IF as_text THEN StrV(IntToStr(n)) ELSE IntV(n)) ELSE StrV(<<"b","o","b">>)

\* the n-th row of the model's SELECT: one value per selected column, named as
\* the column is aliased; SELECT * of a model without fields returns the
\* physical columns
Row(m, n, as_text) ==
    IF Len(m.fields) = 0 THEN <<Entry(<<"I","D">>, RawValue("int", n, as_text))>>
    ELSE [i \in 1..Len(m.fields) |->
             Entry(m.fields[i].attr, RawValue(m.fields[i].kind, n, as_text))]

\* the row lists fetchall can return: the first rows of the table, or its
\* first row with the integer columns as text
SessionRows(m) ==
    {[n \in 1..len |-> Row(m, n, FALSE)] : len \in 0..MaxRows} \cup {<<Row(m, 1, TRUE)>>}

\* the lookups the caller passes to filter and get of the model's engine
LookupArgs(m) == {<<>>, <<Entry(model_pk(m), IntV(1))>>}

\* the fields the caller passes to create, update and delete
FieldArgs(m) ==
    {<<Entry(model_pk(m), IntV(1)), Entry(<<"n","a","m","e">>, StrV(<<"a","m","y">>))>>,
     <<Entry(<<"n","a","m","e">>, StrV(<<"a","m","y">>))>>}

\* the fields the caller passes to the update of an entity
EntityArgs(m) ==
    {<<Entry(m.fields[i].attr, v)>> :
        i \in 1..Len(m.fields), v \in {IntV(2), StrV(<<"a","m","y">>)}}

(***************************************************************************)
(* The state machine                                                       *)
(***************************************************************************)
Call(op, id, kwargs, opts) == [op |-> op, model |-> id, kwargs |-> kwargs, opts |-> opts]
Result(exc, value) == [exc |-> exc, value |-> value]

\* no Field instance is used on its own
NoField == [kind |-> "", value |-> NoneV]

\* the class-level state before any Objects was constructed
Fresh ==
    /\ column_lookup = <<>>
    /\ column_lookup_reverse = <<>>
    /\ engines = [id \in ModelIds |-> NoEngine]
    /\ session_log = <<>>
    /\ result = Result("", <<>>)
    /\ entity = NoEntity
    /\ decoded = <<>>
    /\ where_values_before = <<>>
    /\ failed_before = FALSE
    /\ field = NoField

\* the state in which r is what Model.__init__ of m left in a fresh process
ConstructedAs(m, r) ==
    /\ r.err = ""
    /\ column_lookup = r.column_lookup
    /\ column_lookup_reverse = r.column_lookup_reverse
    /\ engines = [id \in ModelIds |-> IF id = m.id THEN r.engine ELSE NoEngine]
    /\ session_log = <<>>
    /\ result = Result("", <<>>)
    /\ entity = NoEntity
    /\ decoded = <<>>
    /\ where_values_before = <<>>
    /\ failed_before = FALSE
    /\ field = NoField

Constructed(m) == ConstructedAs(m, Objects__init__(database_class, m, <<>>, <<>>))

\* an operation of the engine of m ended as r
Ended(op, m, kwargs, opts, r) ==
    /\ engines' = [engines EXCEPT ![m.id] = r.engine]
    /\ call' = Call(op, m.id, kwargs, opts)
    /\ session_log' = r.log
    /\ result' = Result(r.err, r.value)
    /\ where_values_before' = IF op = "filter" THEN engines[m.id].where_values ELSE <<>>
    /\ failed_before' = (op = "filter" /\ FailedExecute(session_log))

Constructing(m, r) ==
    /\ column_lookup' = r.column_lookup
    /\ column_lookup_reverse' = r.column_lookup_reverse
    /\ engines' = IF r.err = "" THEN [engines EXCEPT ![m.id] = r.engine] ELSE engines
    /\ call' = Call("construct", m.id, <<>>, DefaultOptions)
    /\ session_log' = <<>>
    /\ result' = Result(r.err, <<>>)
    /\ UNCHANGED <<database_class, entity, decoded, where_values_before, failed_before,
                   field>>

\* Model.__init__: SomeModel()
Construct(m) ==
    Constructing(m, Objects__init__(database_class, m, column_lookup, column_lookup_reverse))

\* The caller works on the entities of its latest query: a new call on the
\* engine drops the entity held before.

\* the session either fails the statement or executes it and returns rows
SessionAnswers(m) ==
    {a \in {[ok |-> ok, rows |-> rows] : ok \in BOOLEAN, rows \in SessionRows(m)} :
        a.ok \/ a.rows = <<>>}

Filter(m, kwargs, opts, answers) ==
    /\ engines[m.id].bound
    /\ \E a \in answers :
          /\ Ended("filter", m, kwargs, opts,
                   filter(database_class, engines[m.id], m, column_lookup, kwargs, opts,
                          a.ok, a.rows))
    /\ entity' = NoEntity
    /\ decoded' = <<>>
    /\ UNCHANGED <<database_class, column_lookup, column_lookup_reverse, field>>

Get(m, kwargs) ==
    /\ engines[m.id].bound
    /\ \E a \in SessionAnswers(m) :
          /\ Ended("get", m, kwargs, DefaultOptions,
                   get(database_class, engines[m.id], m, column_lookup, kwargs,
                       DefaultOptions, a.ok, a.rows))
    /\ entity' = NoEntity
    /\ decoded' = <<>>
    /\ UNCHANGED <<database_class, column_lookup, column_lookup_reverse, field>>

All(m) ==
    /\ engines[m.id].bound
    /\ \E a \in SessionAnswers(m) :
          /\ Ended("all", m, <<>>, DefaultOptions,
                   all(database_class, engines[m.id], m, column_lookup, <<>>,
                       DefaultOptions, a.ok, a.rows))
    /\ entity' = NoEntity
    /\ decoded' = <<>>
    /\ UNCHANGED <<database_class, column_lookup, column_lookup_reverse, field>>

Create(m, kwargs) ==
    /\ engines[m.id].bound
    /\ \E ok \in BOOLEAN :
          Ended("create", m, kwargs, DefaultOptions,
                create(database_class, engines[m.id], column_lookup, kwargs, ok))
    /\ entity' = NoEntity
    /\ decoded' = <<>>
    /\ UNCHANGED <<database_class, column_lookup, column_lookup_reverse, field>>

Update(m, fields) ==
    /\ engines[m.id].bound
    /\ \E ok \in BOOLEAN, a \in SessionAnswers(m) :
          /\ Ended("update", m, fields, DefaultOptions,
                   update(database_class, engines[m.id], m, column_lookup, fields,
                          ok, a.ok, a.rows))
    /\ entity' = NoEntity
    /\ decoded' = <<>>
    /\ UNCHANGED <<database_class, column_lookup, column_lookup_reverse, field>>

Delete(m, fields) ==
    /\ engines[m.id].bound
    /\ \E ok \in BOOLEAN :
          Ended("delete", m, fields, DefaultOptions,
                delete(database_class, engines[m.id], fields, ok))
    /\ entity' = NoEntity
    /\ decoded' = <<>>
    /\ UNCHANGED <<database_class, column_lookup, column_lookup_reverse, field>>

CreateTable(m) ==
    /\ engines[m.id].bound
    /\ \E ok \in BOOLEAN :
          Ended("create_table", m, <<>>, DefaultOptions,
                create_table(database_class, engines[m.id], ok))
    /\ entity' = NoEntity
    /\ decoded' = <<>>
    /\ UNCHANGED <<database_class, column_lookup, column_lookup_reverse, field>>

DropTable(m) ==
    /\ engines[m.id].bound
    /\ \E ok \in BOOLEAN :
          Ended("drop_table", m, <<>>, DefaultOptions,
                drop_table(database_class, engines[m.id], ok))
    /\ entity' = NoEntity
    /\ decoded' = <<>>
    /\ UNCHANGED <<database_class, column_lookup, column_lookup_reverse, field>>

TruncateTable(m) ==
    /\ engines[m.id].bound
    /\ \E ok \in BOOLEAN :
          Ended("truncate_table", m, <<>>, DefaultOptions,
                truncate_table(database_class, engines[m.id], ok))
    /\ entity' = NoEntity
    /\ decoded' = <<>>
    /\ UNCHANGED <<database_class, column_lookup, column_lookup_reverse, field>>

\* the caller keeps one of the entities the last operation returned
Hold(i) ==
    /\ call.op \in {"filter", "get", "all", "update", "save"}
    /\ result.exc = ""
    /\ i \in 1..Len(result.value)
    /\ entity' = result.value[i]
    /\ decoded' = result.value[i].container
    /\ call' = Call("hold", call.model, <<>>, DefaultOptions)
    /\ result' = Result("", <<>>)
    /\ session_log' = <<>>
    /\ UNCHANGED <<database_class, column_lookup, column_lookup_reverse, engines,
                   where_values_before, failed_before, field>>

EntityUpdated(kwargs, r) ==
    /\ entity' = [entity EXCEPT !.container = r.container]
    /\ call' = Call("entity_update", entity.model, kwargs, DefaultOptions)
    /\ result' = Result(r.err, <<>>)
    /\ session_log' = <<>>
    /\ UNCHANGED <<database_class, column_lookup, column_lookup_reverse, engines, decoded,
                   where_values_before, failed_before, field>>

\* entity.update(**kwargs)
EntityUpdate(kwargs) ==
    /\ entity # NoEntity
    /\ EntityUpdated(kwargs, QueryObject_update(ModelOf(entity.model), entity.container,
                                                kwargs, 1))

\* entity.save()
EntitySave ==
    /\ entity # NoEntity
    /\ \E ok \in BOOLEAN, a \in SessionAnswers(ModelOf(entity.model)) :
          /\ Ended("save", ModelOf(entity.model), entity.container, DefaultOptions,
                   QueryObject_save(database_class, engines[entity.model],
                                    ModelOf(entity.model), column_lookup,
                                    entity.container, ok, a.ok, a.rows))
    /\ UNCHANGED <<database_class, column_lookup, column_lookup_reverse, entity, decoded,
                   field>>

\* entity.delete()
EntityDelete ==
    /\ entity # NoEntity
    /\ \E ok \in BOOLEAN :
          Ended("entity_delete", ModelOf(entity.model), entity.container, DefaultOptions,
                QueryObject_delete(database_class, engines[entity.model],
                                   entity.container, ok))
    /\ UNCHANGED <<database_class, column_lookup, column_lookup_reverse, entity, decoded,
                   field>>

\* field.set_value(value) on a Field instance of its own
SetValue(v) ==
    /\ field # NoField
    /\ field' = [field EXCEPT !.value = set_value(field.kind, v).value]
    /\ call' = Call("set_value", "", <<Entry(<<"v","a","l","u","e">>, v)>>, DefaultOptions)
    /\ result' = Result(set_value(field.kind, v).err, <<>>)
    /\ UNCHANGED <<database_class, column_lookup, column_lookup_reverse, engines,
                   session_log, entity, decoded, where_values_before, failed_before>>

(***************************************************************************)
(* Spec: one model is bound in a fresh process and its engine and the      *)
(* entities it returns are used                                            *)
(***************************************************************************)
\* the models whose engine Spec uses
SpecModels == {Plain, Person, Member}

Init ==
    /\ database_class \in DatabaseClasses
    /\ \E m \in SpecModels : Constructed(m) /\ call = Call("construct", m.id, <<>>, DefaultOptions)

FilterAny == \E m \in Models : \E kw \in LookupArgs(m) :
                Filter(m, kw, DefaultOptions, SessionAnswers(m))
GetAny == \E m \in Models : \E kw \in LookupArgs(m) : Get(m, kw)
AllAny == \E m \in Models : All(m)
CreateAny == \E m \in Models : \E kw \in FieldArgs(m) : Create(m, kw)
UpdateAny == \E m \in Models : \E kw \in FieldArgs(m) : Update(m, kw)
DeleteAny == \E m \in Models : \E kw \in FieldArgs(m) : Delete(m, kw)
HoldAny == \E i \in 1..MaxRows : Hold(i)
EntityUpdateAny ==
    /\ entity # NoEntity
    /\ \E kw \in EntityArgs(ModelOf(entity.model)) : EntityUpdate(kw)

Next ==
    \/ FilterAny
    \/ GetAny
    \/ AllAny
    \/ CreateAny
    \/ UpdateAny
    \/ DeleteAny
    \/ HoldAny
    \/ EntityUpdateAny
    \/ EntitySave
    \/ EntityDelete

Spec == Init /\ [][Next]_vars

(***************************************************************************)
(* SpecBind: models are constructed one after another in one process       *)
(***************************************************************************)
InitBind ==
    /\ database_class \in DatabaseClasses
    /\ Fresh
    /\ call = Call("new", "", <<>>, DefaultOptions)

\* the models constructed one after another
BindModels == {Plain, Person, Member, Dup, Keyed}

ConstructAny == \E m \in BindModels : Construct(m)

NextBind == ConstructAny

SpecBind == InitBind /\ [][NextBind]_vars

(***************************************************************************)
(* SpecFilter: one filter call on a freshly bound engine.  The call (its   *)
(* lookups and control keywords) is drawn when the process starts.         *)
(***************************************************************************)
\* the functions _process_filters recognizes, and no function at all
Functions ==
    {<<"i","e","x","a","c","t">>, <<"i","c","o","n","t","a","i","n","s">>, <<"c","o","n","t","a","i","n","s">>, <<"s","t","a","r","t","s","w","i","t","h">>, <<"e","n","d","s","w","i","t","h">>,
     <<"i","s","t","a","r","t","s","w","i","t","h">>, <<"i","e","n","d","s","w","i","t","h">>, <<"n","o","t","_","l","i","k","e">>, <<"i","s","n","u","l","l">>, <<"l","t">>, <<"l","t","e">>, <<"g","t">>,
     <<"g","t","e">>, <<"i","n">>, <<"n","o","t","_","i","n">>, <<"l","e","n","g","t","h","_","l","t">>, <<"l","e","n","g","t","h","_","l","t","e">>, <<"l","e","n","g","t","h","_","g","t">>,
     <<"l","e","n","g","t","h","_","g","t","e">>}

\* the values a single lookup compares with
LookupValues(f) ==
    IF f = <<"i","s","n","u","l","l">> THEN {BoolV(TRUE), BoolV(FALSE)} ELSE {StrV(<<"b","o","b">>), IntV(21)}

\* calls with one lookup: every function, on a str and on an int
SingleLookups ==
    UNION {{<<Entry(<<"n","a","m","e","_","_">> \o f, v)>> : v \in LookupValues(f)} : f \in Functions}
        \cup {<<Entry(<<"n","a","m","e">>, v)>> : v \in {StrV(<<"b","o","b">>), IntV(21), NoneV}}

\* the lookups that calls with several lookups are made of
CoreLookups ==
    {Entry(<<"a">>, IntV(1)),
     Entry(<<"b","_","_","o","r","_","a","n","d">>, IntV(2)),
     Entry(<<"c","_","_","a","n","d","_","e","n","d">>, IntV(3)),
     Entry(<<"b","_","_","_","_","o","r","_","a","n","d">>, IntV(2)),
     Entry(<<"c","_","_","_","_","x","_","a","n","d","_","e","n","d">>, IntV(3)),
     Entry(<<"n","a","m","e","_","_","i","c","o","n","t","a","i","n","s">>, StrV(<<"b","o","b">>)),
     Entry(<<"a","g","e","_","_","g","t","e">>, IntV(21)),
     Entry(<<"n","a","m","e","_","_","i","s","n","u","l","l">>, BoolV(TRUE)),
     Entry(<<"d","_","_","o","r">>, NoneV)}

SeveralLookups ==
    {kw \in SeqsUpTo(CoreLookups, MaxLookups) : Len(kw) > 1 /\ DistinctKeys(kw)}

\* the filter calls: unparametrized only with one lookup
FilterCalls ==
    {[kwargs |-> kw, opts |-> Options(p, 0, FALSE)] :
        kw \in SingleLookups, p \in BOOLEAN}
    \cup {[kwargs |-> kw, opts |-> DefaultOptions] : kw \in SeveralLookups}

\* the models a filter call is made on: without fields, and with "name" bound
FilterModels == {Plain, Person}

InitFilter ==
    /\ database_class \in DatabaseClasses
    /\ \E m \in FilterModels :
          /\ Constructed(m)
          /\ \E c \in FilterCalls : call = Call("pending", m.id, c.kwargs, c.opts)

\* the session executes the statement or fails it; the table is empty
FilterCall ==
    /\ call.op = "pending"
    /\ Filter(ModelOf(call.model), call.kwargs, call.opts,
              {a \in SessionAnswers(ModelOf(call.model)) : a.rows = <<>>})

NextFilter == FilterCall

SpecFilter == InitFilter /\ [][NextFilter]_vars

(***************************************************************************)
(* SpecTable: one model is bound in a fresh process and the DDL operations *)
(* of its engine are used                                                  *)
(***************************************************************************)
\* the models whose table is defined
TableModels == {Person, Member, Event, Item, Track}

InitTable ==
    /\ database_class \in DatabaseClasses
    /\ \E m \in TableModels :
          Constructed(m) /\ call = Call("construct", m.id, <<>>, DefaultOptions)

CreateTableAny == \E m \in Models : CreateTable(m)
DropTableAny == \E m \in Models : DropTable(m)
TruncateTableAny == \E m \in Models : TruncateTable(m)

NextTable ==
    \/ CreateTableAny
    \/ DropTableAny
    \/ TruncateTableAny

SpecTable == InitTable /\ [][NextTable]_vars

(***************************************************************************)
(* SpecJoin: the joined model is bound in a fresh process and queried      *)
(***************************************************************************)
JoinModels == {MyModel, Linked, Orders, Pair}

InitJoin ==
    /\ database_class \in DatabaseClasses
    /\ \E m \in JoinModels :
          Constructed(m) /\ call = Call("construct", m.id, <<>>, DefaultOptions)

NextJoin ==
    \/ FilterAny
    \/ GetAny
    \/ AllAny
    \/ CreateTableAny

SpecJoin == InitJoin /\ [][NextJoin]_vars

(***************************************************************************)
(* SpecField: values are set on a Field instance of one of the classes     *)
(***************************************************************************)
\* the values given to set_value
FieldValues ==
    {NoneV, IntV(5), BoolV(TRUE), FloatV(3, <<"7">>), FloatV(3, <<"0">>),
     StrV(<<"5">>), StrV(<<"3",".","7">>), StrV(<<"b","o","b">>), StrV(<<"2","0","2","4","0","1","0","5">>), StrV(<<"2","0","2","4","-","0","1","-","0","5">>),
     StrV(<<"2","0","2","4","-","0","1","-","0","5"," ","1","0",":","3","0",":","0","0">>),
     DateV(20240105), DateTimeV(20240105, <<"1","0","3","0","0","0">>), DecimalV(<<"3",".","7">>)}

\* a DateTimeField is given the texts whose parse does not depend on the day
\* it is made
SetValueArgs(kind) ==
    IF kind = "datetime"
    THEN FieldValues \ {StrV(<<"5">>), StrV(<<"3",".","7">>), StrV(<<"2","0","2","4","0","1","0","5">>)}
    ELSE FieldValues

InitField ==
    /\ database_class \in {"sqlite"}
    /\ column_lookup = <<>>
    /\ column_lookup_reverse = <<>>
    /\ engines = [id \in ModelIds |-> NoEngine]
    /\ session_log = <<>>
    /\ result = Result("", <<>>)
    /\ entity = NoEntity
    /\ decoded = <<>>
    /\ where_values_before = <<>>
    /\ failed_before = FALSE
    /\ call = Call("new", "", <<>>, DefaultOptions)
    /\ field \in {[kind |-> k, value |-> NoneV] : k \in FieldKinds}

SetValueAny == \E v \in SetValueArgs(field.kind) : SetValue(v)

NextField == SetValueAny

SpecField == InitField /\ [][NextField]_vars

(***************************************************************************)
(* SpecRoundTrip: a row is created, then fetched by its primary key from a *)
(* table that holds the row as it was inserted                             *)
(***************************************************************************)
RoundTripModels == {Person, Event}

\* the fields the caller passes to create
CreatedFields(m) ==
    IF m.id = "Event"
    THEN {<<Entry(<<"I","D">>, IntV(1)), Entry(<<"d","a","y">>, StrV(<<"2","0","2","4","-","0","1","-","0","5">>))>>,
          <<Entry(<<"I","D">>, IntV(1)), Entry(<<"d","a","y">>, DateV(20240105))>>,
          <<Entry(<<"I","D">>, IntV(1)), Entry(<<"a","t">>, StrV(<<"2","0","2","4","-","0","1","-","0","5"," ","1","0",":","3","0",":","0","0">>)),
            Entry(<<"d","a","y">>, StrV(<<"2","0","2","4","0","1","0","5">>))>>,
          <<Entry(<<"I","D">>, IntV(1)), Entry(<<"a","t">>, DateTimeV(20240105, <<"1","0","3","0","0","0">>)),
            Entry(<<"d","a","y">>, StrV(<<"2","0","2","4","-","0","1","-","0","5">>))>>}
    ELSE {<<Entry(<<"I","D">>, IntV(1)), Entry(<<"n","a","m","e">>, StrV(<<"a","m","y">>))>>,
          <<Entry(<<"I","D">>, IntV(1)), Entry(<<"n","a","m","e">>, IntV(5))>>}

\* what the session returns for a stored value: the value as it was inserted,
\* or, from a driver with date and time types, the date or time the text names
StoredValue(kind, v, native) ==
    CASE native /\ kind = "date" /\ v.t = "str" /\ IsIsoDate(v.s) -> DateV(iso_ymd(v.s))
      [] native /\ kind = "datetime" /\ v.t = "str" /\ parse(v).err = "" -> parse(v).value
      [] OTHER -> v

\* the row of the SELECT of the model for the row inserted with kwargs: a
\* column that was not inserted is NULL
StoredRow(m, kwargs, native) ==
    [i \in 1..Len(m.fields) |->
        Entry(m.fields[i].attr,
              StoredValue(m.fields[i].kind, DictGet(kwargs, m.fields[i].attr, NoneV), native))]

InitRoundTrip ==
    /\ database_class \in DatabaseClasses
    /\ call = Call("new", "", <<>>, DefaultOptions)
    /\ \E m \in RoundTripModels : Constructed(m)

CreateRow == \E m \in RoundTripModels : \E kw \in CreatedFields(m) : Create(m, kw)

\* get(pk=<the key of the row created>) after a create that succeeded
GetCreated ==
    /\ call.op = "create"
    /\ result.exc = ""
    /\ \E native \in BOOLEAN :
          Ended("get", ModelOf(call.model),
                <<Entry(engines[call.model].pk, pk_value(engines[call.model], call.kwargs))>>,
                DefaultOptions,
                get(database_class, engines[call.model], ModelOf(call.model), column_lookup,
                    <<Entry(engines[call.model].pk, pk_value(engines[call.model], call.kwargs))>>,
                    DefaultOptions, TRUE,
                    <<StoredRow(ModelOf(call.model), call.kwargs, native)>>))
    /\ entity' = NoEntity
    /\ decoded' = <<>>
    /\ UNCHANGED <<database_class, column_lookup, column_lookup_reverse, field>>

NextRoundTrip == CreateRow \/ GetCreated

SpecRoundTrip == InitRoundTrip /\ [][NextRoundTrip]_vars

(***************************************************************************)
(* Properties                                                              *)
(***************************************************************************)
Range(s) == {s[i] : i \in 1..Len(s)}

\* the WHERE clause of a SELECT without ORDER BY and LIMIT
where_from(sql, i) == IF i = 0 THEN <<>> ELSE SubSeq(sql, i + 7, Len(sql) - 1)
where_of(sql) == where_from(sql, find(sql, <<" ","W","H","E","R","E"," ">>, 1))

\* the placeholder of the dialect in use
P == _param_string(database_class)

\* the last operation was filter(**kwargs), and a statement reached the session
Filtered(kwargs) ==
    /\ call.op = "filter"
    /\ call.kwargs = kwargs
    /\ call.opts = DefaultOptions
    /\ Len(session_log) > 0

\* another value of the same type and the same length
sibling_value(v) ==
    CASE v.t = "str" -> StrV([i \in 1..Len(v.s) |-> IF v.s[i] = "x" THEN "y" ELSE "x"])
      [] v.t = "int" -> IntV(IF v.n % 10 = 9 THEN v.n - 1 ELSE v.n + 1)
      [] OTHER -> v

\* the same lookups with other values of the same length; isnull keeps its flag
Sibling(kwargs) ==
    [i \in 1..Len(kwargs) |->
        IF lookup_key_function(split(kwargs[i].k, <<"_","_">>)) = <<"i","s","n","u","l","l">> THEN kwargs[i]
        ELSE Entry(kwargs[i].k, sibling_value(kwargs[i].v))]

\* the statement the last call would have handed over for the lookups kwargs
statement_for(kwargs) ==
    CASE call.op = "filter" ->
            filter(database_class, engines[call.model], ModelOf(call.model), column_lookup,
                   kwargs, call.opts, TRUE, <<>>).log[1].sql
      [] call.op = "create" ->
            create(database_class, engines[call.model], column_lookup, kwargs, TRUE).log[1].sql
      [] call.op = "update" ->
            update(database_class, engines[call.model], ModelOf(call.model), column_lookup,
                   kwargs, TRUE, TRUE, <<>>).log[1].sql
      [] OTHER ->
            delete(database_class, engines[call.model], kwargs, TRUE).log[1].sql

\* C1: in parametrized mode the list of values filter hands to execute has
\* exactly one entry per placeholder token of the WHERE clause.
C1_OneValuePerPlaceholder ==
    (call.op = "filter" /\ call.opts.parametrized /\ Len(session_log) > 0) =>
        Len(session_log[1].params) = count(where_of(session_log[1].sql), P)

\* C2: in parametrized mode filter never inlines a compared value: the same
\* lookups with other values of the same length give the same SQL text.
C2_ValuesNeverInlined ==
    (call.op = "filter" /\ call.opts.parametrized /\ Len(session_log) > 0) =>
        statement_for(Sibling(call.kwargs)) = session_log[1].sql

GroupingCall ==
    <<Entry(<<"a">>, IntV(1)), Entry(<<"b","_","_","o","r","_","a","n","d">>, IntV(2)), Entry(<<"c","_","_","a","n","d","_","e","n","d">>, IntV(3))>>

\* the same call with the function segment left empty and a three-segment
\* closing operator
GroupingCallByGrammar ==
    <<Entry(<<"a">>, IntV(1)), Entry(<<"b","_","_","_","_","o","r","_","a","n","d">>, IntV(2)),
      Entry(<<"c","_","_","_","_","x","_","a","n","d","_","e","n","d">>, IntV(3))>>

Grouped == <<"a"," ","="," ">> \o P \o <<" ","O","R"," ","(","b"," ","="," ">> \o P \o <<" ","A","N","D"," ","c"," ","="," ">> \o P \o <<")">>
Flat == <<"a"," ","="," ">> \o P \o <<" ","A","N","D"," ","b"," ","="," ">> \o P \o <<" ","A","N","D"," ","c"," ","="," ">> \o P

\* C3 as stated: filter(a=1, b__or_and=2, c__and_end=3) produces the clause
\* a = ? OR (b = ? AND c = ?) with the values [1, 2, 3].
C3_GroupingAsStated ==
    Filtered(GroupingCall) =>
        /\ where_of(session_log[1].sql) = Grouped
        /\ session_log[1].params = <<IntV(1), IntV(2), IntV(3)>>

\* C3 amended: filter(a=1, b__or_and=2, c__and_end=3) produces the clause
\* a = ? AND b = ? AND c = ? with the values [1, 2, 3]: the second segment of
\* a key is always its function.  The grouped clause a = ? OR (b = ? AND c = ?)
\* is what filter(a=1, b____or_and=2, c____x_and_end=3) produces.
C3_GroupingByPosition ==
    /\ Filtered(GroupingCall) =>
          /\ where_of(session_log[1].sql) = Flat
          /\ session_log[1].params = <<IntV(1), IntV(2), IntV(3)>>
    /\ Filtered(GroupingCallByGrammar) =>
          /\ where_of(session_log[1].sql) = Grouped
          /\ session_log[1].params = <<IntV(1), IntV(2), IntV(3)>>

C3_GroupingCallMade == Filtered(GroupingCall) /\ session_log[1].ok

IcontainsCall ==
    <<Entry(<<"n","a","m","e","_","_","i","c","o","n","t","a","i","n","s">>, StrV(<<"b","o","b">>)), Entry(<<"a","g","e","_","_","g","t","e">>, IntV(21))>>

\* neither name nor age is a bound field
Unmapped == ~DictHas(column_lookup, <<"n","a","m","e">>) /\ ~DictHas(column_lookup, <<"a","g","e">>)

\* C4: on sqlite, filter(name__icontains="bob", age__gte=21) on fields without
\* a column mapping produces the clause UPPER(name) LIKE ? AND age >= ? with
\* the values ["%BOB%", 21] in that order.
C4_IcontainsAndGte ==
    (database_class = "sqlite" /\ Unmapped /\ Filtered(IcontainsCall)) =>
        /\ where_of(session_log[1].sql) = <<"U","P","P","E","R","(","n","a","m","e",")"," ","L","I","K","E"," ","?"," ","A","N","D"," ","a","g","e"," ",">","="," ","?">>
        /\ session_log[1].params = <<StrV(<<"%","B","O","B","%">>), IntV(21)>>
        /\ session_log[1].bound

C4_IcontainsCallMade ==
    database_class = "sqlite" /\ Unmapped /\ Filtered(IcontainsCall) /\ session_log[1].ok

\* the rows fetchall returned to the last operation
fetches == SelectSeq(session_log, LAMBDA e : e.ev = "fetchall")
Fetched == IF Len(fetches) > 0 THEN fetches[Len(fetches)].rows ELSE <<>>

\* how get ends when filter ended as d
GetEndsBy(d) ==
    \/ d.err # "" /\ result.exc = d.err
    \/ d.err = "" /\ Len(d.value) = 0 /\ result.exc = "ObjectDoesNotExist"
    \/ d.err = "" /\ Len(d.value) = 1 /\ result.exc = "" /\ result.value = d.value
    \/ d.err = "" /\ Len(d.value) > 1 /\ result.exc = "MultipleObjectsReturned"

\* C5: get returns the single entity when filter yields exactly one row,
\* raises ObjectDoesNotExist when it yields none and MultipleObjectsReturned
\* when it yields two or more.
C5_GetByRowCount ==
    call.op = "get" => GetEndsBy(decode_rows(database_class, ModelOf(call.model), Fetched, 1, <<>>))

C5_GetOfSeveralRows ==
    /\ call.op = "get"
    /\ Len(Fetched) > 1
    /\ result.exc = "MultipleObjectsReturned"

IsMutating(sql) ==
    \/ startswith(upper(sql), <<"I","N","S","E","R","T">>)
    \/ startswith(upper(sql), <<"U","P","D","A","T","E">>)
    \/ startswith(upper(sql), <<"D","E","L","E","T","E">>)

\* C6: every mutating statement of create, update or delete that the session
\* executes successfully is followed by a commit before the operation returns.
C6_CommitAfterMutation ==
    call.op \in {"create", "update", "delete"} =>
        \A i \in 1..Len(session_log) :
            (session_log[i].ev = "execute" /\ session_log[i].ok
                 /\ IsMutating(session_log[i].sql)) =>
                (i < Len(session_log) /\ session_log[i + 1].ev = "commit")

\* C7: create, update and delete pass every value of the caller, the
\* primary-key value of the WHERE clause included, as a bound parameter, and
\* the SQL text does not depend on the values.
C7_MutationsParametrized ==
    (call.op \in {"create", "update", "delete"} /\ Len(session_log) > 0) =>
        /\ call.op \in {"create", "update"} =>
              \A i \in 1..Len(call.kwargs) :
                  call.kwargs[i].v \in Range(session_log[1].params)
        /\ (call.op \in {"update", "delete"}
               /\ DictHas(call.kwargs, engines[call.model].pk)) =>
              pk_value(engines[call.model], call.kwargs) \in Range(session_log[1].params)
        /\ statement_for(Sibling(call.kwargs)) = session_log[1].sql

\* the logical fields bound to the primary-key column of the model
pk_attrs(m) ==
    {m.fields[i].attr : i \in {j \in 1..Len(m.fields) :
                                  attr_real_field(m.fields[j]) = model_pk(m)}}

\* C8: the UPDATE of save() is keyed by the primary-key value the row had
\* when it was decoded, whatever was changed through update(**fields) since
\* and whatever the logical name of the primary-key field is.
C8_SaveKeyedByDecodedPk ==
    (call.op = "save" /\ Len(session_log) > 0) =>
        \A f \in pk_attrs(ModelOf(call.model)) :
            session_log[1].params[Len(session_log[1].params)] = DictGet(decoded, f, NoneV)

\* C9: delete() of an entity hands a DELETE statement to the session and
\* returns without raising.
C9_EntityDeleteIssuesDelete ==
    call.op = "entity_delete" =>
        /\ result.exc = ""
        /\ Len(session_log) > 0
        /\ startswith(session_log[1].sql, <<"D","E","L","E","T","E">>)

\* C10: after any sequence of constructions column_lookup and
\* column_lookup_reverse are inverses: column_lookup[f] = c if and only if
\* column_lookup_reverse[c] = f.
C10_LookupsAreInverses ==
    /\ \A i \in 1..Len(column_lookup) :
          /\ DictHas(column_lookup_reverse, column_lookup[i].v)
          /\ DictGet(column_lookup_reverse, column_lookup[i].v, <<>>) = column_lookup[i].k
    /\ \A i \in 1..Len(column_lookup_reverse) :
          /\ DictHas(column_lookup, column_lookup_reverse[i].v)
          /\ DictGet(column_lookup, column_lookup_reverse[i].v, <<>>)
                 = column_lookup_reverse[i].k

\* C11: every placeholder in a statement of filter, create or update is the
\* dialect's: no %s marker on sqlite and no ? on psql, mssql and pyodbc, so
\* that no statement mixes the two styles.
C11_DialectPlaceholder ==
    (call.op \in {"filter", "create", "update"} /\ Len(session_log) > 0) =>
        /\ database_class = "sqlite" => count(session_log[1].sql, <<"%","s">>) = 0
        /\ database_class \in {"psql", "mssql", "pyodbc"} =>
              count(session_log[1].sql, <<"?">>) = 0

\* the statement a mutating call starts with, up to the table, when the table is
\* wrapped in the pair
Verb ==
    CASE call.op = "create" -> <<"I","N","S","E","R","T"," ","I","N","T","O"," ">>
      [] call.op = "update" -> <<"U","P","D","A","T","E"," ">>
      [] OTHER -> <<"D","E","L","E","T","E"," ","F","R","O","M"," ">>
StartsQuoted(pair) ==
    startswith(session_log[1].sql,
               Verb \o <<pair[1]>> \o engines[call.model].table \o <<pair[2]>> \o <<" ">>)
Mutated == call.op \in {"create", "update", "delete"} /\ Len(session_log) > 0

Brackets == <<"[", "]">>
Backticks == <<Backtick, Backtick>>
DoubleQuotes == <<DoubleQuote, DoubleQuote>>

\* C12 as stated: the table of a mutating statement is wrapped in brackets on
\* psql, in backticks on one of the two tabular-server tags (mssql, pyodbc) and
\* in double quotes on the other one and on every other tag.
C12_QuotingAsStated ==
    Mutated =>
        /\ database_class = "psql" => StartsQuoted(Brackets)
        /\ database_class \in {"mssql", "pyodbc"} =>
              StartsQuoted(Backticks) \/ StartsQuoted(DoubleQuotes)
        /\ database_class \notin {"psql", "mssql", "pyodbc"} => StartsQuoted(DoubleQuotes)

\* C12 amended: the quoting pair depends on the backend-class tag alone,
\* whatever was called before: brackets on mssql, backticks on a tag that
\* contains "mysql", double quotes on every other tag (sqlite, psql, pyodbc).
C12_QuotingByTag ==
    Mutated =>
        /\ database_class = "mssql" => StartsQuoted(Brackets)
        /\ database_class = "MySQLdb" => StartsQuoted(Backticks)
        /\ database_class \in {"sqlite", "psql", "pyodbc"} => StartsQuoted(DoubleQuotes)

C12_CreateOnPsql ==
    /\ call.op = "create"
    /\ database_class = "psql"
    /\ Len(session_log) > 0
    /\ session_log[1].ok
    /\ StartsQuoted(DoubleQuotes)

\* the lines of the CREATE TABLE statement handed to the session: the i-th
\* column definition is line i + 1, followed by a comma unless it is the last
TableLines == split(session_log[1].sql, <<NewLine>>)
ColumnLine(i) ==
    IF i + 1 < Len(TableLines) - 1
    THEN SubSeq(TableLines[i + 1], 1, Len(TableLines[i + 1]) - 1)
    ELSE TableLines[i + 1]
TableCreated == call.op = "create_table" /\ Len(session_log) > 0

\* the field was declared auto-increment: an AutoField, or auto_increment=True
DeclaredAuto(f) == f.kind = "auto" \/ f.py.field_auto_increment = BoolV(TRUE)

AutoForm ==
    IF database_class = "sqlite" THEN <<"A","U","T","O","I","N","C","R","E","M","E","N","T">>
    ELSE IF database_class = "psql" THEN <<"S","E","R","I","A","L">>
    ELSE <<"A","U","T","O","_","I","N","C","R","E","M","E","N","T">>

\* C13: the column definition that create_table emits for a field declared
\* auto-increment contains the auto-increment form of the backend.
C13_AutoIncrementEmitted ==
    TableCreated =>
        \A i \in 1..Len(ModelOf(call.model).fields) :
            DeclaredAuto(defined_fields(ModelOf(call.model))[i]) =>
                find(ColumnLine(i), AutoForm, 1) # 0

Affinities == {<<"I","N","T","E","G","E","R">>, <<"T","E","X","T">>, <<"R","E","A","L">>, <<"N","U","M","E","R","I","C">>}

\* the column definitions of a field whose storage type is an affinity
AffinityDefinitions(f) ==
    {real_column(database_class, f) \o <<" ">> \o t \o pk \o nn :
        t \in Affinities, pk \in {<<>>, <<" ","P","R","I","M","A","R","Y"," ","K","E","Y">>}, nn \in {<<>>, <<" ","N","O","T"," ","N","U","L","L">>}}

\* C14: on sqlite the column definition that create_table emits for a bound
\* field is the column, one of INTEGER, TEXT, REAL, NUMERIC, and at most the
\* modifiers PRIMARY KEY and NOT NULL, whatever type keyword was declared.
C14_SqliteAffinityOnly ==
    (TableCreated /\ database_class = "sqlite") =>
        \A i \in 1..Len(ModelOf(call.model).fields) :
            ColumnLine(i) \in AffinityDefinitions(defined_fields(ModelOf(call.model))[i])

\* the join predicate of MyModel with every table replaced by its alias
TranslatedPredicate == <<"m","y","t","a","b","l","e",".","f","i","e","l","d"," ","="," ","a","n","o","t","h","e","r","t","a","b","l","e",".","f","i","e","l","d">>

\* C15: for the joined model declared as documented, all() and filter() without
\* lookups hand over a SELECT whose WHERE clause contains the join predicate
\* with the tables replaced by their aliases.
C15_JoinPredicateInWhere ==
    (call.op \in {"all", "filter"} /\ call.model = "MyModel" /\ call.kwargs = <<>>
         /\ Len(session_log) > 0) =>
        find(where_of(session_log[1].sql), TranslatedPredicate, 1) # 0


\* the value the last set_value was given
SetValueGiven == call.kwargs[1].v

IsNumberLiteral(s) == IsIntLiteral(s) \/ IsPointLiteral(s)

\* a value of another type that the semantic type of the field can be made of
ConvertibleTo(kind, v) ==
    CASE kind \in IntegerKinds -> v.t = "str" /\ IsIntLiteral(v.s)
      [] kind \in {"char", "text"} -> v.t \in {"int", "float", "decimal"}
      [] kind = "float" -> v.t = "int" \/ (v.t = "str" /\ IsNumberLiteral(v.s))
      [] kind = "decimal" -> v.t = "int" \/ (v.t = "str" /\ IsNumberLiteral(v.s))
      [] kind = "date" -> v.t = "str" /\ Len(v.s) = 8 /\ IsDigitString(v.s)
      [] kind = "datetime" -> v.t = "str" /\ parse(v).err = ""
      [] OTHER -> FALSE

\* C16: set_value(v) on a typed field with a value of another type that is
\* convertible to the type of the field (5 into a text field, an integer into
\* a float field, a numeric string into a decimal field) returns without
\* raising and leaves the converted value held by the field.
C16_ConvertibleValueAccepted ==
    (call.op = "set_value" /\ ConvertibleTo(field.kind, SetValueGiven)) =>
        /\ result.exc = ""
        /\ isinstance(field.kind, field.value)

\* C17: whenever set_value(v) returns without raising, the value held by the
\* field is None or an instance of the semantic type of the field: a value that
\* cannot be coerced raises instead of being kept.
C17_HeldValueIsTyped ==
    (call.op = "set_value" /\ result.exc = "") =>
        (field.value = NoneV \/ isinstance(field.kind, field.value))

\* a number with a fractional part
HasFraction(digits) == \E i \in 1..Len(digits) : digits[i] # "0"
NonIntegral(v) ==
    \/ v.t = "float" /\ HasFraction(v.s)
    \/ v.t = "decimal" /\ IsPointLiteral(v.s) /\ HasFraction(split(v.s, <<".">>)[2])

\* C18: set_value never stores a value that lost information: a non-integral
\* number given to an integer field (3.7) is rejected with an error, never
\* stored as its truncation.
C18_NoSilentTruncation ==
    (call.op = "set_value" /\ field.kind \in IntegerKinds /\ NonIntegral(SetValueGiven)) =>
        /\ result.exc # ""
        /\ field.value.t \notin {"int", "bool"}

\* the value of a field of the semantic type of kind that the coercion rules
\* make of v
Coerced(kind, v) ==
    CASE v = NoneV \/ isinstance(kind, v) -> v
      [] kind = "date" /\ v.t = "str" /\ IsIsoDate(v.s) -> DateV(iso_ymd(v.s))
      [] kind = "date" /\ v.t = "str" /\ Len(v.s) = 8 /\ IsDigitString(v.s) ->
            DateV(StrToInt(v.s))
      [] kind = "datetime" /\ v.t = "str" /\ parse(v).err = "" -> parse(v).value
      [] kind \in {"char", "text"} -> StrV(str(v))
      [] OTHER -> v

\* the entity holds, for every field of the model, the coerced value of row
HoldsCoerced(m, container, row) ==
    \A i \in 1..Len(m.fields) :
        DictGet(container, m.fields[i].attr, NoneV)
            = Coerced(m.fields[i].kind, DictGet(row, m.fields[i].attr, NoneV))

\* C19: after create(**fields), get() on the primary key of the created row
\* returns an entity whose field values equal the supplied values under the
\* coercion rules: a date field stored as the string "2024-01-05" decodes to
\* date(2024, 1, 5).
C19_RoundTrip ==
    (call.op = "get" /\ Len(Fetched) = 1) =>
        /\ result.exc = ""
        /\ Len(result.value) = 1
        /\ HoldsCoerced(ModelOf(call.model), result.value[1].container, Fetched[1])

\* the values that the lookups of the last call alone give, from an empty list
OwnValues ==
    IF call.op = "all" \/ call.opts.select_all \/ ~call.opts.parametrized THEN <<>>
    ELSE _process_filters(<<>>, call.kwargs, column_lookup, TRUE, P).where_values

\* C20: after any sequence of filter, get and all calls on one engine, the
\* values a filter call hands to the session are those of its own lookups and
\* nothing else: what an earlier call left in where_values does not survive.
C20_OnlyOwnValues ==
    (call.op \in {"filter", "get", "all"} /\ Len(session_log) > 0) =>
        /\ session_log[1].params = OwnValues
        /\ call.opts.parametrized => engines[call.model].where_values = OwnValues

\* a filter with a lookup on an engine whose earlier call left values behind
C20_FilterAfterValues ==
    /\ call.op = "filter"
    /\ where_values_before # <<>>
    /\ Len(session_log) > 0
    /\ session_log[1].ok
    /\ session_log[1].params # <<>>

\* what Model.__init__ of the model left in a fresh process
BoundAtConstruction(id) == Objects__init__(database_class, ModelOf(id), <<>>, <<>>)

\* what an engine keeps of its binding
Binding(e) == <<e.bound, e.table, e.pk, e.columns, e.join_where, e.table_definition>>

\* the statement an engine as it was constructed hands over for the last call
StatementAsConstructed(b) ==
    filter(database_class, b.engine, ModelOf(call.model), b.column_lookup, call.kwargs,
           call.opts, TRUE, <<>>).log[1]

SameStatement(a, b) == a.sql = b.sql /\ a.params = b.params /\ a.bound = b.bound

DdlHead(op) ==
    (CASE op = "create_table" -> <<"C","R","E","A","T","E"," ","T","A","B","L","E"," ">>
       [] op = "drop_table" -> <<"D","R","O","P"," ","T","A","B","L","E"," ">>
       [] OTHER -> <<"T","R","U","N","C","A","T","E"," ","T","A","B","L","E"," ">>)
        \o encap_string(database_class, engines[call.model].table)

\* C22: on every backend class create_table(), drop_table() and
\* truncate_table() each hand exactly one statement, CREATE TABLE / DROP TABLE /
\* TRUNCATE TABLE against the quoted table name, to the session's execute and
\* return without raising.
C22_DdlHandsOneStatement ==
    call.op \in {"create_table", "drop_table", "truncate_table"} =>
        /\ result.exc = ""
        /\ Len(session_log) = 1
        /\ session_log[1].ev = "execute"
        /\ startswith(session_log[1].sql, DdlHead(call.op))

\* the lookups of the last call that are compared: those whose value is not None
Emitted == SelectSeq(call.kwargs, LAMBDA e : e.v.t # "none")

\* the segments of the operator of a lookup
OperatorSegments(e) == split(lookup_key_operator(split(e.k, <<"_","_">>)), <<"_">>)

\* the comparison of a lookup, without combinator
ComparisonOf(e) ==
    where_append(DictGet(column_lookup, split(e.k, <<"_","_">>)[1], split(e.k, <<"_","_">>)[1]),
                 lookup_key_function(split(e.k, <<"_","_">>)), e.v, call.opts.parametrized,
                 P).where_append

\* a clause after the first as the operator of its lookup asks for
Prefixed(segments, w) ==
    CASE Len(segments) = 1 -> upper(segments[1]) \o <<" ">> \o w
      [] Len(segments) = 2 -> upper(segments[1]) \o <<" ","(">> \o w
      [] OTHER -> upper(segments[2]) \o <<" ">> \o w \o <<")">>

IsOperator(segments) ==
    Len(segments) \in {1, 2} \/ (Len(segments) = 3 /\ upper(segments[3]) = <<"E","N","D">>)

ClauseOf(i) ==
    IF i = 1 THEN ComparisonOf(Emitted[1])
    ELSE Prefixed(OperatorSegments(Emitted[i]), ComparisonOf(Emitted[i]))

\* C23: the operator of a lookup key is split on "_": on every clause after the
\* first, one segment prefixes the clause with that combinator, two segments
\* with the first segment and an opening parenthesis, three segments ending in
\* END with the second segment, and a closing parenthesis is appended; the first
\* clause emitted never gets a combinator, whatever its operator.
C23_OperatorSegments ==
    (call.op = "filter" /\ call.opts = DefaultOptions /\ Len(session_log) > 0
         /\ \A i \in 1..Len(Emitted) : IsOperator(OperatorSegments(Emitted[i]))) =>
        where_of(session_log[1].sql) = join(<<" ">>, [i \in 1..Len(Emitted) |-> ClauseOf(i)])

\* a filter whose first lookup opens a group and whose last lookup closes it
C23_GroupOpenedFirst ==
    /\ call.op = "filter"
    /\ call.opts = DefaultOptions
    /\ Len(Emitted) = 3
    /\ Len(OperatorSegments(Emitted[1])) = 2
    /\ Len(OperatorSegments(Emitted[2])) = 1
    /\ Len(OperatorSegments(Emitted[3])) = 3
    /\ Len(session_log) > 0
    /\ session_log[1].ok

\* the longest of the names
Longest(names) == CHOOSE n \in names : \A o \in names : Len(o) <= Len(n)

\* every occurrence of each table name replaced by the alias of that table: a
\* name that contains another is replaced first
RECURSIVE AliasesFor(_, _)
AliasesFor(s, names) ==
    IF names = {} THEN s
    ELSE AliasesFor(replace(s, Longest(names), namespace_key(Longest(names))),
                    names \ {Longest(names)})

\* the join predicate the model declares, as Model.__init__ reads it
DeclaredPredicate(m) == m.meta_join.join_on

\* the declared predicate with the tables replaced by their aliases and the
\* commas by AND
TranslatedJoin(m) ==
    replace(AliasesFor(DeclaredPredicate(m), Range(m.meta_db_table)), <<",">>, <<" ","A","N","D"," ">>)

\* C24: whatever the table names of a joined model, one being a part of another
\* included, the join predicate used in queries is the declared predicate with
\* every occurrence of each table name replaced by the alias of that table and
\* every comma replaced by AND.
C24_JoinPredicateTranslated ==
    (call.op \in {"filter", "get", "all"} /\ model_joined(ModelOf(call.model))
         /\ Len(session_log) > 0) =>
        /\ engines[call.model].join_where = TranslatedJoin(ModelOf(call.model))
        /\ find(where_of(session_log[1].sql), TranslatedJoin(ModelOf(call.model)), 1) # 0

\* the alias that qualifies the column of a field of a joined model
Qualifier(attr) ==
    SubSeq(DictGet(column_lookup, attr, <<>>), 1,
           find(DictGet(column_lookup, attr, <<>>), <<".">>, 1) - 1)

\* C29: in a joined engine distinct table names get distinct aliases: the
\* columns of fields of different tables are qualified by different aliases,
\* also when the names differ only in digits, case or punctuation.
DifferentTables(f, g) ==
    f.db_table # g.db_table /\ Len(f.db_table) > 0 /\ Len(g.db_table) > 0

C29_DistinctAliases ==
    (call.op \in {"filter", "get", "all"} /\ model_joined(ModelOf(call.model))
         /\ Len(session_log) > 0) =>
        \A i, j \in 1..Len(ModelOf(call.model).fields) :
            DifferentTables(ModelOf(call.model).fields[i], ModelOf(call.model).fields[j]) =>
                Qualifier(ModelOf(call.model).fields[i].attr)
                    # Qualifier(ModelOf(call.model).fields[j].attr)

\* the last call constructed a model whose Meta has no db_table
ConstructedWithoutTable ==
    /\ call.op = "construct"
    /\ ModelOf(call.model).meta
    /\ Len(ModelOf(call.model).meta_db_table) = 0

\* C25: a model whose Meta has no db_table attribute binds to the table slug
\* computed from its class name, and its engine is constructed without a
\* binding error.
C25_MetaWithoutTable ==
    ConstructedWithoutTable =>
        /\ result.exc = ""
        /\ engines[call.model].bound
        /\ engines[call.model].table = _db_slug(ModelOf(call.model).class_name)

\* C26: the containers are per instance: after the engines of two models were
\* constructed one after the other, the column map of the second holds entries
\* for the fields of its own model only, and the reverse map for their columns.
C26_MapsPerInstance ==
    (call.op = "construct" /\ result.exc = "") =>
        /\ \A i \in 1..Len(column_lookup) :
              HasField(ModelOf(call.model), column_lookup[i].k)
        /\ \A i \in 1..Len(column_lookup_reverse) :
              HasField(ModelOf(call.model), column_lookup_reverse[i].v)

\* the line is a column definition of the field: its column, then its type
DefinitionOf(line, f) ==
    SubSeq(line, 1, Len(real_column(database_class, f)) + 1)
        = real_column(database_class, f) \o <<" ">>

\* C27: create_table emits exactly one column definition per bound field, in
\* the order the fields were declared on the model.
C27_OneDefinitionPerField ==
    TableCreated =>
        /\ Len(TableLines) - 2 = Len(ModelOf(call.model).fields)
        /\ \A i \in 1..Len(ModelOf(call.model).fields) :
              DefinitionOf(ColumnLine(i), ModelOf(call.model).fields[i])

\* C27, the order alone: the i-th line emitted defines the i-th declared field
C27_DeclarationOrder ==
    (TableCreated /\ Len(TableLines) - 2 >= Len(ModelOf(call.model).fields)) =>
        \A i \in 1..Len(ModelOf(call.model).fields) :
            DefinitionOf(ColumnLine(i), ModelOf(call.model).fields[i])

\* how often the text occurs in s
Occurrences(s, text) ==
    Cardinality({i \in 1..(Len(s) - Len(text) + 1) :
                    SubSeq(s, i, i + Len(text) - 1) = text})

\* the lookups among the first n emitted whose operator has that many segments
Groups(n, segments) ==
    Cardinality({i \in 1..n : /\ Len(lookup_key_operator(split(Emitted[i].k, <<"_","_">>))) > 0
                              /\ Len(OperatorSegments(Emitted[i])) = segments})

\* every operator has one, two, or three segments ending in END, and every
\* group opener is followed later by exactly one group closer
GroupsWellFormed ==
    /\ \A i \in 1..Len(Emitted) : IsOperator(OperatorSegments(Emitted[i]))
    /\ \A n \in 1..Len(Emitted) : Groups(n, 3) <= Groups(n, 2) /\ Groups(n, 2) <= Groups(n, 3) + 1
    /\ Groups(Len(Emitted), 2) = Groups(Len(Emitted), 3)

\* C28: for lookups whose group openers are each closed once, the WHERE clause
\* has balanced parentheses and exactly one comparison per lookup that is not
\* None (a comparison that several lookups ask for occurs once for each of
\* them), including when the first lookup opens the group.
C28_BalancedGroups ==
    (call.op = "filter" /\ call.opts = DefaultOptions /\ Len(session_log) > 0
         /\ GroupsWellFormed) =>
        /\ Occurrences(where_of(session_log[1].sql), <<"(">>)
              = Occurrences(where_of(session_log[1].sql), <<")">>)
        /\ \A i \in 1..Len(Emitted) :
              Occurrences(where_of(session_log[1].sql), ComparisonOf(Emitted[i]))
                  = Cardinality({j \in 1..Len(Emitted) :
                                    ComparisonOf(Emitted[j]) = ComparisonOf(Emitted[i])})

\* C30: when set_value raises, the field holds the value it held before the
\* call: a rejected value is never left stored in the field.
C30_RejectedValueNotStored ==
    [][(call'.op = "set_value" /\ result'.exc # "") => field'.value = field.value]_vars

\* updates of an entity with two fields at once
PairArgs(m) ==
    {<<Entry(m.fields[i].attr, v), Entry(m.fields[j].attr, w)>> :
        i \in 1..Len(m.fields), j \in 1..Len(m.fields),
        v \in {IntV(2), StrV(<<"a","m","y">>)}, w \in {IntV(2), StrV(<<"a","m","y">>)}}

\* C30, the entity: an update that raises on one field leaves the snapshot of
\* the entity unchanged for every field.
C30_FailedUpdateChangesNothing ==
    entity # NoEntity =>
        \A kw \in EntityArgs(ModelOf(entity.model)) \cup PairArgs(ModelOf(entity.model)) :
            QueryObject_update(ModelOf(entity.model), entity.container, kw, 1).err # "" =>
                QueryObject_update(ModelOf(entity.model), entity.container, kw, 1).container
                    = entity.container
====
